---- MODULE Spec2Model ----
(***************************************************************************)
(* Verification model of the dashboard layout engine (src-tauri/src/       *)
(* layout.rs) and of the versioned persistence engine (src-tauri/src/      *)
(* persistence/*.rs, commands/persistence.rs).                             *)
(*                                                                         *)
(* Seven specifications share this module:                                 *)
(*   SpecGrid      GridManager as a state machine of layout operations     *)
(*   SpecStorage   save_state / load_state over the three state files,     *)
(*                 with process crashes                                    *)
(*   SpecRecovery  validate / sanitize / recover_state and the             *)
(*                 load_persisted_state pipeline on enumerated inputs      *)
(*   SpecService   LayoutService and dashboard.json, one call at a time,   *)
(*                 with writes that fail                                   *)
(*   SpecThreads   LayoutService called from several threads               *)
(*   SpecSavers    save_state called from two threads at once              *)
(*   SpecDelete    delete_state on every combination of the state files    *)
(***************************************************************************)
EXTENDS Integers, Sequences, FiniteSets, TLC

VARIABLES
    overflow_checks,  \* build profile: TRUE = arithmetic overflow panics, FALSE = it wraps
    grid,             \* GridManager.grid
    widgets,          \* GridManager.widgets
    last_valid,       \* GridManager.last_valid
    version,          \* GridManager.version
    last_outcome,     \* how the last GridManager call ended: "Ok", a LayoutError, "Panic"
    panicked,         \* a call panicked: the manager's mutex is poisoned
    primary,          \* the file state.json
    backup,           \* the file state.backup.json
    temp,             \* the file state.tmp.json
    pc,               \* where the running save_state stands; "idle", or "crashed"
    save_arg,         \* the state handed to the latest save_state
    primary_before,   \* history: the primary file when the latest save_state was entered
    backup_before,    \* history: the backup file when the latest save_state was entered
    crash_at,         \* history: the value of pc at which the process died, or "none"
    save_result,      \* what the latest save_state returned: "none", "Ok", "Err"
    load_result,      \* what load_state returned since the latest save_state was entered
    copy_result,      \* history: how the backup copy of the latest save_state went
    p_in,             \* argument of the persistence function under study
    p_out,            \* what the latest call of it returned
    dashboard,        \* the file dashboard.json
    svc_result,       \* the latest LayoutService call: what it returned and what it found
    load_calls,       \* per thread: a LayoutService::load between its read and its lock
    savers            \* per thread: a save_state running beside another one

gridVars == <<grid, widgets, last_valid, version, last_outcome, panicked>>

storageVars == <<primary, backup, temp, pc, save_arg, primary_before, backup_before, crash_at,
                 save_result, load_result, copy_result, savers>>

pureVars == <<p_in, p_out>>

serviceVars == <<dashboard, svc_result, load_calls>>

vars == <<overflow_checks, gridVars, storageVars, pureVars, serviceVars>>

(***************************************************************************)
(* Bounds of the model                                                     *)
(***************************************************************************)
MaxWidgets == 2     \* AddWidget is not tried on a list that already holds this many
MaxImport == 2      \* longest widget list handed to replace_state

(***************************************************************************)
(* Machine integers                                                        *)
(***************************************************************************)
U8Max == 255

Wrap8(n) == n % (U8Max + 1)

Ovf8(n) == n > U8Max

(***************************************************************************)
(* serde_json::Value and Option<Value>, as far as the layout code looks    *)
(* into them: absent, null, a non-object value, or an object (a set of     *)
(* <<key, value>> pairs with distinct keys).                               *)
(***************************************************************************)
NoneV == [kind |-> "none", obj |-> {}]

NullV == [kind |-> "null", obj |-> {}]

ScalarV == [kind |-> "scalar", obj |-> {}]

ObjectV(pairs) == [kind |-> "object", obj |-> pairs]

Keys(pairs) == {p[1] : p \in pairs}

default_settings_for(widget_type) ==
    IF widget_type = "clock"
    THEN ObjectV({ <<"timeFormat", "12h">>, <<"showSeconds", "true">>,
                   <<"dateFormat", "long">>, <<"layoutStyle", "stacked">>,
                   <<"alignment", "center">>, <<"fontSizeMode", "auto">>,
                   <<"timezone", "system">>, <<"updateFrequency", "second">>,
                   <<"clickBehavior", "open-system-clock">>,
                   <<"minGridSize", "{width:3,height:2}">> })
    ELSE NoneV

\* base.insert(key, value) for every pair of overrides
InsertAll(base, overrides) ==
    overrides \cup {p \in base : p[1] \notin Keys(overrides)}

merge_settings(defaults, overrides) ==
    IF defaults.kind = "object" /\ overrides.kind = "object"
    THEN ObjectV(InsertAll(defaults.obj, overrides.obj))
    ELSE IF overrides.kind = "object"
    THEN ObjectV(InsertAll({}, overrides.obj))
    ELSE IF overrides.kind = "null" THEN defaults
    ELSE IF overrides.kind # "none" THEN overrides
    ELSE defaults

apply_widget_defaults(widget) ==
    LET defaults == default_settings_for(widget.widget_type) IN
    IF defaults.kind # "none"
    THEN [widget EXCEPT !.settings = merge_settings(defaults, widget.settings)]
    ELSE widget

(***************************************************************************)
(* WidgetRegistry                                                          *)
(***************************************************************************)
RegisteredTypes == {"notifications", "mail", "clock"}

constraints_for(widget_type) ==
    CASE widget_type = "notifications" ->
            [min_width |-> 6, min_height |-> 4, max_width |-> 24, max_height |-> 12]
      [] widget_type = "mail" ->
            [min_width |-> 6, min_height |-> 4, max_width |-> 24, max_height |-> 12]
      [] widget_type = "clock" ->
            [min_width |-> 3, min_height |-> 2, max_width |-> 12, max_height |-> 8]

(***************************************************************************)
(* CollisionDetector.  A u8 sum that exceeds 255 panics when the build     *)
(* checks overflow and wraps otherwise; || evaluates left to right and     *)
(* stops at the first true operand.  Results: "Ok", an error, or "Panic".  *)
(***************************************************************************)
\* `a + b > limit` on u8: "T", "F", or "P" (panic)
SumExceeds(a, b, limit) ==
    IF overflow_checks /\ Ovf8(a + b) THEN "P"
    ELSE IF Wrap8(a + b) > limit THEN "T" ELSE "F"

\* within_bounds without its check of the minimum size
within_bounds_no_min_size(columns, rows, layout, constraints) ==
    IF layout.width > constraints.max_width \/ layout.height > constraints.max_height
    THEN "InvalidSize"
    ELSE LET ex == SumExceeds(layout.x, layout.width, columns) IN
         IF ex = "P" THEN "Panic"
         ELSE IF ex = "T" THEN "OutOfBounds"
         ELSE LET ey == SumExceeds(layout.y, layout.height, rows) IN
              IF ey = "P" THEN "Panic"
              ELSE IF ey = "T" THEN "OutOfBounds"
              ELSE "Ok"

within_bounds(columns, rows, layout, constraints) ==
    IF layout.width < constraints.min_width \/ layout.height < constraints.min_height
    THEN "InvalidSize"
    ELSE IF layout.width > constraints.max_width \/ layout.height > constraints.max_height
    THEN "InvalidSize"
    ELSE LET ex == SumExceeds(layout.x, layout.width, columns) IN
         IF ex = "P" THEN "Panic"
         ELSE IF ex = "T" THEN "OutOfBounds"
         ELSE LET ey == SumExceeds(layout.y, layout.height, rows) IN
              IF ey = "P" THEN "Panic"
              ELSE IF ey = "T" THEN "OutOfBounds"
              ELSE "Ok"

\* "T", "F", or "P" (panic)
overlaps(a, b) ==
    IF overflow_checks /\ Ovf8(b.x + b.width) THEN "P"
    ELSE IF a.x >= Wrap8(b.x + b.width) THEN "F"
    ELSE IF overflow_checks /\ Ovf8(a.x + a.width) THEN "P"
    ELSE IF Wrap8(a.x + a.width) <= b.x THEN "F"
    ELSE IF overflow_checks /\ Ovf8(b.y + b.height) THEN "P"
    ELSE IF a.y >= Wrap8(b.y + b.height) THEN "F"
    ELSE IF overflow_checks /\ Ovf8(a.y + a.height) THEN "P"
    ELSE IF Wrap8(a.y + a.height) <= b.y THEN "F"
    ELSE "T"

RECURSIVE collides(_, _)
collides(ws, candidate) ==
    IF ws = <<>> THEN "F"
    ELSE IF Head(ws).id = candidate.id THEN collides(Tail(ws), candidate)
    ELSE LET o == overlaps(Head(ws), candidate) IN
         IF o = "F" THEN collides(Tail(ws), candidate) ELSE o

(***************************************************************************)
(* GridManager                                                             *)
(***************************************************************************)
DEFAULT_VERSION == 1

GRID_COLUMNS == 24

GRID_ROWS == 12

validate_with(columns, rows, universe, layout) ==
    IF layout.widget_type \notin RegisteredTypes THEN "UnknownWidget"
    ELSE LET wb == within_bounds(columns, rows, layout, constraints_for(layout.widget_type)) IN
         IF wb # "Ok" THEN wb
         ELSE LET c == collides(universe, layout) IN
              IF c = "P" THEN "Panic"
              ELSE IF c = "T" THEN "Collision"
              ELSE "Ok"

\* the loop of set_widgets: [panic, next]
RECURSIVE set_widgets_loop(_, _, _, _)
set_widgets_loop(columns, rows, input, next) ==
    IF input = <<>> THEN [panic |-> FALSE, next |-> next]
    ELSE LET widget == apply_widget_defaults(Head(input))
             v == validate_with(columns, rows, next, widget)
         IN  IF v = "Panic" THEN [panic |-> TRUE, next |-> next]
             ELSE set_widgets_loop(columns, rows, Tail(input),
                                   IF v = "Ok" THEN Append(next, widget) ELSE next)

set_widgets(columns, rows, input) == set_widgets_loop(columns, rows, input, <<>>)

\* the replace-or-append loop of upsert_widget
RECURSIVE upsert_next(_, _, _)
upsert_next(ws, widget, replaced) ==
    IF ws = <<>> THEN (IF replaced THEN <<>> ELSE <<widget>>)
    ELSE IF Head(ws).id = widget.id
    THEN <<widget>> \o upsert_next(Tail(ws), widget, TRUE)
    ELSE <<Head(ws)>> \o upsert_next(Tail(ws), widget, replaced)

(* The result of one arm of apply_operation's match:                       *)
(*   outcome  "Ok", the LayoutError, or "Panic"                            *)
(*   widgets  self.widgets when the arm is left                            *)
(*   early    the arm left apply_operation itself (`?` or `return`)        *)
Arm(outcome, ws, early) == [outcome |-> outcome, widgets |-> ws, early |-> early]

upsert_widget(ws, widget0) ==
    LET widget == apply_widget_defaults(widget0)
        v == validate_with(grid.columns, grid.rows, ws, widget)
    IN  IF v # "Ok" THEN Arm(v, ws, FALSE)
        ELSE Arm("Ok", upsert_next(ws, widget, FALSE), FALSE)

\* remove_widget without the comparison of the lengths
remove_widget_ignores_missing(ws, id) ==
    Arm("Ok", SelectSeq(ws, LAMBDA w : w.id # id), FALSE)

remove_widget(ws, id) ==
    LET retained == SelectSeq(ws, LAMBDA w : w.id # id) IN
    IF Len(retained) = Len(ws) THEN Arm("UnknownId", retained, FALSE)
    ELSE Arm("Ok", retained, FALSE)

\* .iter().find(|w| w.id == id): the index of the first match, 0 if none
find(ws, id) ==
    IF \E i \in 1..Len(ws) : ws[i].id = id
    THEN CHOOSE i \in 1..Len(ws) : ws[i].id = id /\ \A j \in 1..(i - 1) : ws[j].id # id
    ELSE 0

NoU8 == -1   \* Option<u8>::None

NoId == "<none>"   \* Option<String>::None

Ids == {"a", "b"}

IdsOf(ws) == {ws[i].id : i \in 1..Len(ws)}

\* format!("{}-{}", widget_type, Uuid::new_v4()): an id no widget has yet
generated_id(ws) == CHOOSE id \in Ids : id \notin IdsOf(ws)

add_widget_arm(ws, widget_type, layout) ==
    LET settings == IF layout.settings.kind # "none" THEN layout.settings
                    ELSE default_settings_for(widget_type)
        id == IF layout.id # NoId THEN layout.id ELSE generated_id(ws)
        widget == [id |-> id, widget_type |-> widget_type,
                   x |-> layout.x, y |-> layout.y,
                   width |-> layout.width, height |-> layout.height,
                   locked |-> (layout.locked = "true"),
                   settings |-> settings]
    IN  upsert_widget(ws, widget)

\* mutant: the widget is written in place before the lock check returns
move_widget_arm_writes_first(ws, id, x, y) ==
    LET i == find(ws, id) IN
    IF i = 0 THEN Arm("UnknownId", ws, TRUE)
    ELSE IF ws[i].locked THEN Arm("Locked", [ws EXCEPT ![i].x = x, ![i].y = y], TRUE)
    ELSE upsert_widget(ws, [ws[i] EXCEPT !.x = x, !.y = y])

move_widget_arm(ws, id, x, y) ==
    LET i == find(ws, id) IN
    IF i = 0 THEN Arm("UnknownId", ws, TRUE)
    ELSE IF ws[i].locked THEN Arm("Locked", ws, TRUE)
    ELSE upsert_widget(ws, [ws[i] EXCEPT !.x = x, !.y = y])

\* mutant: the lock check is missing
resize_widget_arm_no_lock_check(ws, id, width, height, x, y) ==
    LET i == find(ws, id) IN
    IF i = 0 THEN Arm("UnknownId", ws, TRUE)
    ELSE upsert_widget(ws, [ws[i] EXCEPT !.width = width, !.height = height,
                                         !.x = IF x # NoU8 THEN x ELSE @,
                                         !.y = IF y # NoU8 THEN y ELSE @])

resize_widget_arm(ws, id, width, height, x, y) ==
    LET i == find(ws, id) IN
    IF i = 0 THEN Arm("UnknownId", ws, TRUE)
    ELSE IF ws[i].locked THEN Arm("Locked", ws, TRUE)
    ELSE upsert_widget(ws, [ws[i] EXCEPT !.width = width, !.height = height,
                                         !.x = IF x # NoU8 THEN x ELSE @,
                                         !.y = IF y # NoU8 THEN y ELSE @])

set_widget_lock_arm(ws, id, locked) ==
    LET i == find(ws, id) IN
    IF i = 0 THEN Arm("UnknownId", ws, TRUE)
    ELSE upsert_widget(ws, [ws[i] EXCEPT !.locked = locked])

set_widget_settings_arm(ws, id, settings) ==
    LET i == find(ws, id) IN
    IF i = 0 THEN Arm("UnknownId", ws, TRUE)
    ELSE upsert_widget(ws, [ws[i] EXCEPT !.settings = settings])

(* apply_operation around its match: the snapshot, the arm, and the        *)
(* restore of the snapshot when the arm's result is an error.  The value   *)
(* is the manager's fields when the call is over, with the call's outcome. *)
apply_operation(arm) ==
    LET snapshot == widgets IN
    [outcome |-> arm.outcome,
     widgets |-> IF arm.early \/ arm.outcome \in {"Ok", "Panic"} THEN arm.widgets
                 ELSE snapshot,
     last_valid |-> IF arm.outcome = "Ok" THEN arm.widgets ELSE last_valid,
     grid |-> grid,
     version |-> version]

replace_state(state) ==
    LET r == set_widgets(state.grid.columns, state.grid.rows, state.widgets) IN
    [outcome |-> IF r.panic THEN "Panic" ELSE "Ok",
     widgets |-> IF r.panic THEN widgets ELSE r.next,
     last_valid |-> IF r.panic THEN last_valid ELSE r.next,
     grid |-> state.grid,
     version |-> state.version]

(* The call returns (or panics: the panic unwinds through the caller's     *)
(* lock guard and poisons the mutex, so no later call gets in).            *)
Return(result) ==
    \E post \in {result} :
        /\ widgets' = post.widgets
        /\ last_valid' = post.last_valid
        /\ grid' = post.grid
        /\ version' = post.version
        /\ last_outcome' = post.outcome
        /\ panicked' = (post.outcome = "Panic")
        /\ UNCHANGED <<overflow_checks, storageVars, pureVars, serviceVars>>

(***************************************************************************)
(* Inputs of the operations                                                *)
(***************************************************************************)
TypeInputs == {"clock", "mail", "timer"}

XInputs == {0, 3, 252}

YInputs == {0}

WidthInputs == {3, 6}

HeightInputs == {4}

SlotSettingsInputs == {NoneV}

ValueInputs == {NullV}

\* the grid and version of an imported LayoutState
HeaderInputs == {[grid |-> [columns |-> GRID_COLUMNS, rows |-> GRID_ROWS],
                  version |-> DEFAULT_VERSION],
                 [grid |-> [columns |-> U8Max, rows |-> GRID_ROWS],
                  version |-> DEFAULT_VERSION + 1]}

ImportWidget(id, widget_type, x, width) ==
    [id |-> id, widget_type |-> widget_type, x |-> x, y |-> 0,
     width |-> width, height |-> 4, locked |-> FALSE, settings |-> NoneV]

ImportWidgets ==
    { ImportWidget("a", "clock", 0, 6), ImportWidget("a", "clock", 3, 3),
      ImportWidget("b", "clock", 3, 3), ImportWidget("b", "clock", 252, 6),
      ImportWidget("b", "timer", 0, 6) }

SeqsUpTo(S, n) == UNION {[1..k -> S] : k \in 0..n}

(***************************************************************************)
(* Actions: one per LayoutOperation, and replace_state                     *)
(***************************************************************************)
SlotInputs ==
    [id : Ids \cup {NoId}, x : XInputs, y : YInputs, width : WidthInputs,
     height : HeightInputs, locked : {"none", "true"}, settings : SlotSettingsInputs]

AddWidgetResult(widget_type, layout) ==
    apply_operation(add_widget_arm(widgets, widget_type, layout))

MoveWidgetResult(id, x, y) ==
    apply_operation(move_widget_arm(widgets, id, x, y))

ResizeWidgetResult(id, width, height, x, y) ==
    apply_operation(resize_widget_arm(widgets, id, width, height, x, y))

RemoveWidgetResult(id) ==
    apply_operation(remove_widget(widgets, id))

SetWidgetLockResult(id, locked) ==
    apply_operation(set_widget_lock_arm(widgets, id, locked))

SetWidgetSettingsResult(id, settings) ==
    apply_operation(set_widget_settings_arm(widgets, id, settings))

AddWidget ==
    /\ ~panicked
    /\ Len(widgets) < MaxWidgets
    /\ \E widget_type \in TypeInputs, layout \in SlotInputs :
        /\ layout.id = NoId => Ids \ IdsOf(widgets) # {}
        /\ Return(AddWidgetResult(widget_type, layout))

MoveWidget ==
    /\ ~panicked
    /\ \E id \in Ids, x \in XInputs, y \in YInputs :
        Return(MoveWidgetResult(id, x, y))

ResizeWidget ==
    /\ ~panicked
    /\ \E id \in Ids, width \in WidthInputs, height \in HeightInputs,
          x \in XInputs \cup {NoU8}, y \in YInputs \cup {NoU8} :
        Return(ResizeWidgetResult(id, width, height, x, y))

RemoveWidget ==
    /\ ~panicked
    /\ \E id \in Ids :
        Return(RemoveWidgetResult(id))

SetWidgetLock ==
    /\ ~panicked
    /\ \E id \in Ids, locked \in BOOLEAN :
        Return(SetWidgetLockResult(id, locked))

SetWidgetSettings ==
    /\ ~panicked
    /\ \E id \in Ids, settings \in ValueInputs :
        Return(SetWidgetSettingsResult(id, settings))

ReplaceState ==
    /\ ~panicked
    /\ \E h \in HeaderInputs, ws \in SeqsUpTo(ImportWidgets, MaxImport) :
        Return(replace_state([grid |-> h.grid, widgets |-> ws, version |-> h.version]))

(***************************************************************************)
(* ----------------------- Persistence engine ---------------------------- *)
(* u32 values are kept at their width, as two 16-bit halves: TLC's own     *)
(* integers are too narrow for a u32 sum.                                  *)
(***************************************************************************)
U16Mod == 65536

U32(n) == [hi |-> n \div U16Mod, lo |-> n % U16Mod]

U32Max == [hi |-> U16Mod - 1, lo |-> U16Mod - 1]

Lt32(a, b) == a.hi < b.hi \/ (a.hi = b.hi /\ a.lo < b.lo)

Le32(a, b) == a = b \/ Lt32(a, b)

\* a + b on u32: the wrapped sum and whether it overflowed
Add32(a, b) ==
    LET lo == a.lo + b.lo
        hi == a.hi + b.hi + (lo \div U16Mod)
    IN  [overflow |-> hi >= U16Mod, v |-> [hi |-> hi % U16Mod, lo |-> lo % U16Mod]]

\* Ord::clamp
Clamp32(v, min, max) == IF Lt32(v, min) THEN min ELSE IF Lt32(max, v) THEN max ELSE v

ClampInt(v, min, max) == IF v < min THEN min ELSE IF v > max THEN max ELSE v

\* `a + b > limit` on u32: "T", "F", or "P" (panic)
SumExceeds32(a, b, limit) ==
    LET sum == Add32(a, b) IN
    IF overflow_checks /\ sum.overflow THEN "P"
    ELSE IF Lt32(limit, sum.v) THEN "T" ELSE "F"

(***************************************************************************)
(* schemas.rs                                                              *)
(***************************************************************************)
CURRENT_VERSION == 1

DefaultAppSettings ==
    [is_fullscreen |-> FALSE, selected_monitor |-> 0, always_on_top |-> FALSE,
     window_position |-> "none"]

DefaultLayout == [grid |-> [columns |-> U32(24), rows |-> U32(12)], widgets |-> <<>>]

DefaultPreferences ==
    [theme |-> "auto", power_saving |-> FALSE, refresh_interval |-> 8000,
     widget_visibility |-> {}, widget_scale |-> {}, widget_order |-> <<>>,
     alert_rules |-> <<>>, notes |-> ""]

DefaultPersistedState ==
    [version |-> CURRENT_VERSION, app_settings |-> DefaultAppSettings,
     layout |-> DefaultLayout, preferences |-> DefaultPreferences]

\* one entry of the Vec<String> that validate returns
Warning(kind, id, widget_type) == [kind |-> kind, id |-> id, widget_type |-> widget_type]

\* the widget loop of validate: [panic, warnings]
RECURSIVE validate_widgets(_, _)
validate_widgets(gridc, ws) ==
    IF ws = <<>> THEN [panic |-> FALSE, warnings |-> <<>>]
    ELSE LET w == Head(ws)
             ex == SumExceeds32(w.x, w.width, gridc.columns)
             outside == IF ex # "F" THEN ex ELSE SumExceeds32(w.y, w.height, gridc.rows)
             rest == validate_widgets(gridc, Tail(ws))
         IN  IF outside = "P" THEN [panic |-> TRUE, warnings |-> <<>>]
             ELSE [panic |-> rest.panic,
                   warnings |->
                      (IF outside = "T"
                       THEN <<Warning("outside grid bounds", w.id, w.widget_type)>>
                       ELSE <<>>)
                      \o (IF w.width = U32(0) \/ w.height = U32(0)
                          THEN <<Warning("zero size", w.id, w.widget_type)>>
                          ELSE <<>>)
                      \o rest.warnings]

\* the seen_ids loop of validate
RECURSIVE validate_duplicates(_, _)
validate_duplicates(ws, seen_ids) ==
    IF ws = <<>> THEN <<>>
    ELSE (IF Head(ws).id \in seen_ids
          THEN <<Warning("duplicate id", Head(ws).id, "")>> ELSE <<>>)
         \o validate_duplicates(Tail(ws), seen_ids \cup {Head(ws).id})

\* [panic, warnings]
validate(s) ==
    LET g == s.layout.grid
        per_widget == validate_widgets(g, s.layout.widgets)
    IN  [panic |-> per_widget.panic,
         warnings |->
            IF per_widget.panic THEN <<>>
            ELSE (IF s.version > CURRENT_VERSION
                  THEN <<Warning("newer version", "", "")>> ELSE <<>>)
              \o (IF g.columns = U32(0) \/ g.rows = U32(0)
                  THEN <<Warning("zero grid", "", "")>> ELSE <<>>)
              \o (IF Lt32(U32(100), g.columns) \/ Lt32(U32(100), g.rows)
                  THEN <<Warning("large grid", "", "")>> ELSE <<>>)
              \o per_widget.warnings
              \o validate_duplicates(s.layout.widgets, {})
              \o (IF s.preferences.refresh_interval < 1000
                  THEN <<Warning("refresh interval < 1s", "", "")>> ELSE <<>>)
              \o (IF s.preferences.refresh_interval > 60000
                  THEN <<Warning("refresh interval > 60s", "", "")>> ELSE <<>>)]

\* the closure of the first retain of sanitize: "T" keep, "F" drop, "P" panic
retain_in_bounds(gridc, w) ==
    IF w.width = U32(0) THEN "F"
    ELSE IF w.height = U32(0) THEN "F"
    ELSE LET ex == SumExceeds32(w.x, w.width, gridc.columns) IN
         IF ex = "P" THEN "P"
         ELSE IF ex = "T" THEN "F"
         ELSE LET ey == SumExceeds32(w.y, w.height, gridc.rows) IN
              IF ey = "P" THEN "P" ELSE IF ey = "T" THEN "F" ELSE "T"

\* a second retain that hands the widgets it keeps back in reverse order
RECURSIVE retain_first_ids_reversed(_, _)
retain_first_ids_reversed(ws, seen_ids) ==
    IF ws = <<>> THEN <<>>
    ELSE retain_first_ids_reversed(Tail(ws), seen_ids \cup {Head(ws).id})
         \o (IF Head(ws).id \in seen_ids THEN <<>> ELSE <<Head(ws)>>)

\* the closure of the second retain: seen_ids.insert(w.id.clone())
RECURSIVE retain_first_ids(_, _)
retain_first_ids(ws, seen_ids) ==
    IF ws = <<>> THEN <<>>
    ELSE (IF Head(ws).id \in seen_ids THEN <<>> ELSE <<Head(ws)>>)
         \o retain_first_ids(Tail(ws), seen_ids \cup {Head(ws).id})

\* a sanitize whose first retain tests against the grid as it was before the clamp
sanitize_retains_before_clamp(s) ==
    LET gridc == [columns |-> Clamp32(s.layout.grid.columns, U32(6), U32(100)),
                  rows |-> Clamp32(s.layout.grid.rows, U32(4), U32(100))]
        ws == s.layout.widgets
        panics == \E i \in 1..Len(ws) : retain_in_bounds(s.layout.grid, ws[i]) = "P"
        inside == SelectSeq(ws, LAMBDA w : retain_in_bounds(s.layout.grid, w) = "T")
    IN  IF panics THEN [panic |-> TRUE, state |-> s]
        ELSE [panic |-> FALSE,
              state |-> [s EXCEPT
                  !.layout.grid = gridc,
                  !.layout.widgets = retain_first_ids(inside, {}),
                  !.preferences.refresh_interval = ClampInt(@, 1000, 60000)]]

\* [panic, state]
sanitize(s) ==
    LET gridc == [columns |-> Clamp32(s.layout.grid.columns, U32(6), U32(100)),
                  rows |-> Clamp32(s.layout.grid.rows, U32(4), U32(100))]
        ws == s.layout.widgets
        panics == \E i \in 1..Len(ws) : retain_in_bounds(gridc, ws[i]) = "P"
        inside == SelectSeq(ws, LAMBDA w : retain_in_bounds(gridc, w) = "T")
    IN  IF panics THEN [panic |-> TRUE, state |-> s]
        ELSE [panic |-> FALSE,
              state |-> [s EXCEPT
                  !.layout.grid = gridc,
                  !.layout.widgets = retain_first_ids(inside, {}),
                  !.preferences.refresh_interval = ClampInt(@, 1000, 60000)]]

(***************************************************************************)
(* compatibility.rs, migrations.rs                                         *)
(***************************************************************************)
MIN_SUPPORTED_VERSION == 1

\* a classification that takes one version behind for the same version
check_compatibility_by_one(state_version) ==
    IF state_version > CURRENT_VERSION THEN "FutureVersion"
    ELSE LET version_diff == CURRENT_VERSION - state_version IN
         IF version_diff \in 0..1 THEN "FullyCompatible"
         ELSE IF version_diff = 2 THEN "MigrationAvailable"
         ELSE IF version_diff \in 3..5 THEN "MigrationRisky"
         ELSE "Incompatible"

check_compatibility(state_version) ==
    IF state_version > CURRENT_VERSION THEN "FutureVersion"
    ELSE LET version_diff == CURRENT_VERSION - state_version IN
         IF version_diff = 0 THEN "FullyCompatible"
         ELSE IF version_diff \in 1..2 THEN "MigrationAvailable"
         ELSE IF version_diff \in 3..5 THEN "MigrationRisky"
         ELSE "Incompatible"

is_safe_to_migrate(state_version) ==
    check_compatibility(state_version) \in {"FullyCompatible", "MigrationAvailable"}

\* a migration that leaves the version it found
apply_migrations_keeps_version(s) ==
    IF check_compatibility(s.version) = "Incompatible" THEN [ok |-> FALSE, state |-> s]
    ELSE [ok |-> TRUE, state |-> s]

\* [ok, state]
apply_migrations(s) ==
    IF s.version = CURRENT_VERSION THEN [ok |-> TRUE, state |-> s]
    ELSE LET compat_status == check_compatibility(s.version) IN
         IF compat_status \in {"FullyCompatible", "FutureVersion"}
         THEN [ok |-> TRUE, state |-> s]
         ELSE IF compat_status = "Incompatible" THEN [ok |-> FALSE, state |-> s]
         ELSE [ok |-> TRUE, state |-> [s EXCEPT !.version = CURRENT_VERSION]]

(***************************************************************************)
(* recovery.rs.  Option<PersistedState> is [some, val].                    *)
(***************************************************************************)
None == [some |-> FALSE, val |-> DefaultPersistedState]

Some(s) == [some |-> TRUE, val |-> s]

RecoveryResult(state, mode, report) ==
    [panic |-> FALSE, state |-> state, mode |-> mode, report |-> report]

Panicked(state) == [panic |-> TRUE, state |-> state, mode |-> "Panic", report |-> <<>>]

recover_state(state) ==
    IF ~state.some
    THEN RecoveryResult(DefaultPersistedState, "Reset",
                        <<Warning("No previous state (first run)", "", "")>>)
    ELSE LET warnings == validate(state.val) IN
         IF warnings.panic THEN Panicked(state.val)
         ELSE IF warnings.warnings = <<>> THEN RecoveryResult(state.val, "Clean", <<>>)
         ELSE LET sanitized == sanitize(state.val) IN
              IF sanitized.panic THEN Panicked(state.val)
              ELSE LET post_warnings == validate(sanitized.state) IN
                   IF post_warnings.panic THEN Panicked(state.val)
                   ELSE IF post_warnings.warnings = <<>>
                   THEN RecoveryResult(sanitized.state, "Sanitized", warnings.warnings)
                   ELSE RecoveryResult(sanitized.state, "Partial", post_warnings.warnings)

(***************************************************************************)
(* serde_json on PersistedState.  A widget's `settings: Option<Value>` is  *)
(* written as null when None, and null is read back as None; every other   *)
(* field is written and read back as it is.                                *)
(***************************************************************************)
to_string_pretty(s) ==
    [s EXCEPT !.layout.widgets =
        [i \in DOMAIN @ |-> [@[i] EXCEPT !.settings = IF @ = NoneV THEN NullV ELSE @]]]

from_str(doc) ==
    [doc EXCEPT !.layout.widgets =
        [i \in DOMAIN @ |-> [@[i] EXCEPT !.settings = IF @ = NullV THEN NoneV ELSE @]]]

(***************************************************************************)
(* storage.rs.  A file is missing, or holds a text that can or cannot be   *)
(* read; a text is a JSON document, whole or cut short, or something else. *)
(***************************************************************************)
Missing ==
    [exists |-> FALSE, readable |-> FALSE, kind |-> "none",
     doc |-> DefaultPersistedState, complete |-> FALSE]

JsonFile(doc, complete) ==
    [exists |-> TRUE, readable |-> TRUE, kind |-> "json", doc |-> doc, complete |-> complete]

\* a readable file that is not JSON
Garbage ==
    [exists |-> TRUE, readable |-> TRUE, kind |-> "garbage",
     doc |-> DefaultPersistedState, complete |-> TRUE]

\* a file fs::read_to_string fails on
Unreadable == [Garbage EXCEPT !.readable = FALSE]

\* the file while a write or copy of `file` into it is under way
CutShort(file) == IF file.kind = "json" THEN [file EXCEPT !.complete = FALSE] ELSE file

\* fs::read_to_string then serde_json::from_str: [ok, state]
read_and_parse(file) ==
    [ok |-> file.exists /\ file.readable /\ file.kind = "json" /\ file.complete,
     state |-> from_str(file.doc)]

NotLoaded == [kind |-> "NotLoaded", state |-> DefaultPersistedState]

OkSome(s) == [kind |-> "OkSome", state |-> s]

OkNone == [kind |-> "OkNone", state |-> DefaultPersistedState]

Err == [kind |-> "Err", state |-> DefaultPersistedState]

load_backup(backup_file) ==
    IF ~backup_file.exists THEN Err
    ELSE LET parsed == read_and_parse(backup_file) IN
         IF parsed.ok THEN OkSome(parsed.state) ELSE Err

\* a load_state that turns to the backup also when there is no state file
load_state_backup_when_missing(primary_file, backup_file) ==
    LET parsed == read_and_parse(primary_file) IN
    IF parsed.ok THEN OkSome(parsed.state) ELSE load_backup(backup_file)

load_state(primary_file, backup_file) ==
    IF ~primary_file.exists THEN OkNone
    ELSE LET parsed == read_and_parse(primary_file) IN
         IF parsed.ok THEN OkSome(parsed.state) ELSE load_backup(backup_file)

(***************************************************************************)
(* commands/persistence.rs                                                 *)
(***************************************************************************)
\* [panic, state, mode, report]; the command returns Ok(state) unless it panics
load_persisted_state(primary_file, backup_file) ==
    LET loaded == load_state(primary_file, backup_file)
        loaded_state == IF loaded.kind = "OkSome" THEN Some(loaded.state) ELSE None
        migrated == apply_migrations(loaded_state.val)
        migrated_state == IF ~loaded_state.some THEN None
                          ELSE IF migrated.ok THEN Some(migrated.state) ELSE None
    IN  recover_state(migrated_state)

(***************************************************************************)
(* Inputs of the persistence engine                                        *)
(***************************************************************************)
PWidget(id, x, y, width, height) ==
    [id |-> id, widget_type |-> "clock", x |-> x, y |-> y, width |-> width,
     height |-> height, locked |-> FALSE, settings |-> NoneV]

PState(state_version, columns, rows, ws, refresh_interval) ==
    [DefaultPersistedState EXCEPT
        !.version = state_version,
        !.layout = [grid |-> [columns |-> columns, rows |-> rows], widgets |-> ws],
        !.preferences.refresh_interval = refresh_interval]

\* states the front end hands to save_persisted_state
SaveInputs ==
    { DefaultPersistedState,
      PState(CURRENT_VERSION, U32(24), U32(12),
             <<[PWidget("a", U32(0), U32(0), U32(4), U32(4))
                   EXCEPT !.settings = ObjectV({<<"timeFormat", "24h">>})],
               PWidget("b", U32(4), U32(0), U32(4), U32(4))>>, 8000) }

NotSaving == [pc |-> "idle", arg |-> DefaultPersistedState, result |-> "none"]

(***************************************************************************)
(* save_state as a process: one action per file-system call, each of which *)
(* may fail, and the process may die between and inside them.  fs::copy    *)
(* and fs::write fill their target piecemeal; fs::rename is atomic.        *)
(***************************************************************************)
SaveReturns(result) ==
    /\ pc' = "idle"
    /\ save_result' = result

\* save_state is entered (after a crash: by the next run of the application)
SaveState ==
    /\ UNCHANGED <<overflow_checks, gridVars, pureVars, serviceVars, savers>>
    /\ pc \in {"idle", "crashed"}
    /\ \E state \in SaveInputs : save_arg' = state
    /\ pc' = "create_dir_all"
    /\ primary_before' = primary
    /\ backup_before' = backup
    /\ crash_at' = "none"
    /\ save_result' = "none"
    /\ load_result' = NotLoaded
    /\ copy_result' = "none"
    /\ UNCHANGED <<primary, backup, temp>>

CreateDirAll ==
    /\ UNCHANGED <<overflow_checks, gridVars, pureVars, serviceVars, savers>>
    /\ pc = "create_dir_all"
    /\ \E io_ok \in BOOLEAN :
        IF io_ok THEN pc' = "copy" /\ UNCHANGED save_result
        ELSE SaveReturns("Err")
    /\ UNCHANGED <<primary, backup, temp, save_arg, primary_before, backup_before, crash_at, load_result,
                   copy_result>>

\* a backup step that gives up the save when fs::copy cannot start
CopyStartsOrAborts ==
    /\ UNCHANGED <<overflow_checks, gridVars, pureVars, serviceVars, savers>>
    /\ pc = "copy"
    /\ \E io_ok \in BOOLEAN :
        IF ~primary.exists
        THEN pc' = "write" /\ UNCHANGED <<backup, copy_result, save_result>>
        ELSE IF io_ok /\ primary.readable
             THEN /\ pc' = "copying" /\ backup' = CutShort(primary)
                  /\ UNCHANGED <<copy_result, save_result>>
             ELSE SaveReturns("Err") /\ copy_result' = "failed" /\ UNCHANGED backup
    /\ UNCHANGED <<primary, temp, save_arg, primary_before, backup_before, crash_at, load_result>>

\* `if state_path.exists()`: fs::copy opens both files and starts to copy
CopyStarts ==
    /\ UNCHANGED <<overflow_checks, gridVars, pureVars, serviceVars, savers>>
    /\ pc = "copy"
    /\ \E io_ok \in BOOLEAN :
        IF ~primary.exists THEN pc' = "write" /\ UNCHANGED <<backup, copy_result>>
        ELSE IF io_ok /\ primary.readable
             THEN pc' = "copying" /\ backup' = CutShort(primary) /\ UNCHANGED copy_result
             ELSE pc' = "write" /\ copy_result' = "failed" /\ UNCHANGED backup
    /\ UNCHANGED <<primary, temp, save_arg, primary_before, backup_before, crash_at, save_result,
                   load_result>>

\* fs::copy completes, or fails half way; save_state goes on in both cases
CopyEnds ==
    /\ UNCHANGED <<overflow_checks, gridVars, pureVars, serviceVars, savers>>
    /\ pc = "copying"
    /\ \E io_ok \in BOOLEAN :
        IF io_ok THEN backup' = [primary EXCEPT !.readable = TRUE] /\ copy_result' = "ok"
        ELSE copy_result' = "failed" /\ UNCHANGED backup
    /\ pc' = "write"
    /\ UNCHANGED <<primary, temp, save_arg, primary_before, backup_before, crash_at, save_result,
                   load_result>>

\* to_string_pretty, then fs::write creates or truncates the temp file
WriteStarts ==
    /\ UNCHANGED <<overflow_checks, gridVars, pureVars, serviceVars, savers>>
    /\ pc = "write"
    /\ \E io_ok \in BOOLEAN :
        IF io_ok
        THEN /\ pc' = "writing"
             /\ temp' = JsonFile(to_string_pretty(save_arg), FALSE)
             /\ UNCHANGED save_result
        ELSE SaveReturns("Err") /\ UNCHANGED temp
    /\ UNCHANGED <<primary, backup, save_arg, primary_before, backup_before, crash_at, load_result,
                   copy_result>>

WriteEnds ==
    /\ UNCHANGED <<overflow_checks, gridVars, pureVars, serviceVars, savers>>
    /\ pc = "writing"
    /\ \E io_ok \in BOOLEAN :
        IF io_ok
        THEN /\ pc' = "rename"
             /\ temp' = [temp EXCEPT !.complete = TRUE]
             /\ UNCHANGED save_result
        ELSE SaveReturns("Err") /\ UNCHANGED temp
    /\ UNCHANGED <<primary, backup, save_arg, primary_before, backup_before, crash_at, load_result,
                   copy_result>>

\* a rename that fills the state file piecemeal, as a copy does
rename_piecemeal(temp_file) == CutShort(temp_file)

\* fs::rename: the state file once the call is over
rename(temp_file) == temp_file

Rename ==
    /\ UNCHANGED <<overflow_checks, gridVars, pureVars, serviceVars, savers>>
    /\ pc = "rename"
    /\ \E io_ok \in BOOLEAN :
        IF io_ok
        THEN /\ pc' = "renamed"
             /\ primary' = rename(temp)
             /\ temp' = Missing
             /\ UNCHANGED save_result
        ELSE SaveReturns("Err") /\ UNCHANGED <<primary, temp>>
    /\ UNCHANGED <<backup, save_arg, primary_before, backup_before, crash_at, load_result, copy_result>>

SaveOk ==
    /\ UNCHANGED <<overflow_checks, gridVars, pureVars, serviceVars, savers>>
    /\ pc = "renamed"
    /\ SaveReturns("Ok")
    /\ UNCHANGED <<primary, backup, temp, save_arg, primary_before, backup_before, crash_at, load_result,
                   copy_result>>

\* the process dies inside save_state
Crash ==
    /\ UNCHANGED <<overflow_checks, gridVars, pureVars, serviceVars, savers>>
    /\ pc \notin {"idle", "crashed"}
    /\ crash_at' = pc
    /\ pc' = "crashed"
    /\ UNCHANGED <<primary, backup, temp, save_arg, primary_before, backup_before, save_result,
                   load_result, copy_result>>

LoadState ==
    /\ UNCHANGED <<overflow_checks, gridVars, pureVars, serviceVars, savers>>
    /\ pc \in {"idle", "crashed"}
    /\ load_result' = load_state(primary, backup)
    /\ UNCHANGED <<primary, backup, temp, pc, save_arg, primary_before, backup_before, crash_at,
                   save_result, copy_result>>

\* between two saves something else damages the state file
Damage ==
    /\ UNCHANGED <<overflow_checks, gridVars, pureVars, serviceVars, savers>>
    /\ pc = "idle"
    /\ primary.exists
    /\ primary' \in {Garbage, Unreadable}
    /\ primary_before' = primary'
    /\ backup_before' = backup
    /\ save_result' = "none"
    /\ load_result' = NotLoaded
    /\ UNCHANGED <<backup, temp, pc, save_arg, crash_at, copy_result>>

\* ... or the backup file
DamageBackup ==
    /\ UNCHANGED <<overflow_checks, gridVars, pureVars, serviceVars, savers>>
    /\ pc = "idle"
    /\ backup.exists
    /\ backup' \in {Garbage, Unreadable}
    /\ save_result' = "none"
    /\ load_result' = NotLoaded
    /\ UNCHANGED <<primary, temp, pc, save_arg, primary_before, backup_before, crash_at, copy_result>>

(***************************************************************************)
(* Calls of the persistence functions on enumerated arguments and files.   *)
(* p_out is [fn, panic, state, mode, report].                              *)
(***************************************************************************)
MaxPersistedWidgets == 2    \* longest widget list of an enumerated PersistedState

VersionInputs == {0, CURRENT_VERSION, CURRENT_VERSION + 1}

GridInputs32 ==
    { [columns |-> U32(24), rows |-> U32(12)], [columns |-> U32(0), rows |-> U32(12)],
      [columns |-> U32(3), rows |-> U32(2)], [columns |-> U32(1000), rows |-> U32(1000)] }

PWidgetInputs ==
    { PWidget("a", U32(0), U32(0), U32(4), U32(4)),
      PWidget("a", U32(2), U32(0), U32(4), U32(4)),
      PWidget("b", U32(20), U32(8), U32(4), U32(4)),
      PWidget("b", U32(100), U32(100), U32(4), U32(4)),
      PWidget("b", U32(0), U32(0), U32(0), U32(4)),
      PWidget("b", U32Max, U32(0), U32(1), U32(4)),
      PWidget("a", U32(0), U32Max, U32(4), U32(1)) }

RefreshInputs == {100, 8000, 100000}

PersistedStateInputs ==
    { PState(v, g.columns, g.rows, ws, r) :
        v \in VersionInputs, g \in GridInputs32,
        ws \in SeqsUpTo(PWidgetInputs, MaxPersistedWidgets), r \in RefreshInputs }

\* states for the round trip through JSON: a widget's settings None, null, a
\* scalar or an object; the window position None or Some
RoundTripInputs ==
    { [DefaultPersistedState EXCEPT
          !.layout.widgets = <<[PWidget("a", U32(0), U32(0), U32(4), U32(4))
                                   EXCEPT !.settings = v]>>,
          !.app_settings.window_position = wp] :
        v \in {NoneV, NullV, ScalarV, ObjectV({<<"timeFormat", "24h">>})},
        wp \in {"none", "{x:-8,y:0,width:1280,height:720}"} }

\* what the state files may hold when the application starts
FileStates ==
    { DefaultPersistedState,
      PState(0, U32(24), U32(12), <<>>, 8000),
      PState(CURRENT_VERSION + 1, U32(24), U32(12), <<>>, 8000),
      PState(CURRENT_VERSION, U32(3), U32(2), <<>>, 8000),
      PState(CURRENT_VERSION, U32(24), U32(12),
             <<PWidget("b", U32Max, U32(0), U32(1), U32(4))>>, 8000),
      PState(0, U32(0), U32(12),
             <<PWidget("a", U32(0), U32(0), U32(4), U32(4)),
               PWidget("a", U32(2), U32(0), U32(4), U32(4))>>, 100) }

FileInputs ==
    {Missing, Unreadable, Garbage}
        \cup {JsonFile(to_string_pretty(s), c) : s \in FileStates, c \in BOOLEAN}

NotCalled ==
    [fn |-> "none", panic |-> FALSE, state |-> DefaultPersistedState, mode |-> "",
     report |-> <<>>]

Called(fn, result) ==
    [fn |-> fn, panic |-> result.panic, state |-> result.state, mode |-> result.mode,
     report |-> result.report]

Validate ==
    /\ p_in.some
    /\ \E r \in {validate(p_in.val)} :
        p_out' = Called("validate", [panic |-> r.panic, state |-> p_in.val, mode |-> "",
                                     report |-> r.warnings])
    /\ UNCHANGED <<overflow_checks, gridVars, storageVars, serviceVars, p_in>>

Sanitize ==
    /\ p_in.some
    /\ \E r \in {sanitize(p_in.val)} :
        p_out' = Called("sanitize", [panic |-> r.panic, state |-> r.state, mode |-> "",
                                     report |-> <<>>])
    /\ UNCHANGED <<overflow_checks, gridVars, storageVars, serviceVars, p_in>>

ApplyMigrations ==
    /\ p_in.some
    /\ \E r \in {apply_migrations(p_in.val)} :
        p_out' = Called("apply_migrations",
                        [panic |-> FALSE, state |-> r.state,
                         mode |-> IF r.ok THEN "Ok" ELSE "Err", report |-> <<>>])
    /\ UNCHANGED <<overflow_checks, gridVars, storageVars, serviceVars, p_in>>

CheckCompatibility ==
    /\ p_in.some
    /\ p_out' = Called("check_compatibility",
                       [panic |-> FALSE, state |-> p_in.val,
                        mode |-> check_compatibility(p_in.val.version), report |-> <<>>])
    /\ UNCHANGED <<overflow_checks, gridVars, storageVars, serviceVars, p_in>>

IsSafeToMigrate ==
    /\ p_in.some
    /\ p_out' = Called("is_safe_to_migrate",
                       [panic |-> FALSE, state |-> p_in.val,
                        mode |-> IF is_safe_to_migrate(p_in.val.version) THEN "true"
                                 ELSE "false",
                        report |-> <<>>])
    /\ UNCHANGED <<overflow_checks, gridVars, storageVars, serviceVars, p_in>>

\* a delete_state that leaves the backup file where it is
delete_state_keeps_backup(primary_file, backup_file, temp_file, io) ==
    [outcome |-> IF primary_file.exists /\ ~io.primary THEN "Err" ELSE "Ok",
     deleted |-> IF primary_file.exists /\ io.primary THEN 1 ELSE 0,
     primary |-> IF io.primary THEN Missing ELSE primary_file,
     backup |-> backup_file,
     temp |-> temp_file]

\* io says which of the three fs::remove_file calls would succeed.
\* [outcome, deleted, primary, backup, temp]
delete_state(primary_file, backup_file, temp_file, io) ==
    IF primary_file.exists /\ ~io.primary
    THEN [outcome |-> "Err", deleted |-> 0, primary |-> primary_file,
          backup |-> backup_file, temp |-> temp_file]
    ELSE LET after_primary == IF primary_file.exists THEN 1 ELSE 0 IN
         IF backup_file.exists /\ ~io.backup
         THEN [outcome |-> "Err", deleted |-> after_primary, primary |-> Missing,
               backup |-> backup_file, temp |-> temp_file]
         ELSE LET after_backup == after_primary + (IF backup_file.exists THEN 1 ELSE 0) IN
              IF temp_file.exists /\ io.temp
              THEN [outcome |-> "Ok", deleted |-> after_backup + 1, primary |-> Missing,
                    backup |-> Missing, temp |-> Missing]
              ELSE [outcome |-> "Ok", deleted |-> after_backup, primary |-> Missing,
                    backup |-> Missing, temp |-> temp_file]

RemoveOutcomes == [primary : BOOLEAN, backup : BOOLEAN, temp : BOOLEAN]

\* delete_state on the files as they are; the report keeps what it found
DeleteState ==
    /\ pc = "idle"
    /\ \E io \in RemoveOutcomes :
        \E r \in {delete_state(primary, backup, temp, io)} :
            /\ primary' = r.primary
            /\ backup' = r.backup
            /\ temp' = r.temp
            /\ p_out' = Called("delete_state",
                               [panic |-> FALSE, state |-> DefaultPersistedState,
                                mode |-> r.outcome,
                                report |-> <<[deleted |-> r.deleted,
                                              had_primary |-> primary.exists,
                                              had_backup |-> backup.exists,
                                              had_temp |-> temp.exists,
                                              temp_refused |-> ~io.temp]>>])
    /\ load_result' = NotLoaded
    /\ UNCHANGED <<overflow_checks, gridVars, serviceVars, p_in, pc, save_arg,
                   primary_before, backup_before, crash_at, save_result, copy_result, savers>>

\* serde_json::from_str(&serde_json::to_string(&state))
RoundTrip ==
    /\ p_in.some
    /\ p_out' = Called("round_trip",
                       [panic |-> FALSE, state |-> from_str(to_string_pretty(p_in.val)),
                        mode |-> "", report |-> <<>>])
    /\ UNCHANGED <<overflow_checks, gridVars, storageVars, serviceVars, p_in>>

RecoverState ==
    /\ p_out' = Called("recover_state", recover_state(p_in))
    /\ UNCHANGED <<overflow_checks, gridVars, storageVars, serviceVars, p_in>>

LoadPersistedState ==
    /\ p_out' = Called("load_persisted_state", load_persisted_state(primary, backup))
    /\ UNCHANGED <<overflow_checks, gridVars, storageVars, serviceVars, p_in>>

\* the state a call returned is the argument of the next call
PassOn ==
    /\ p_out.fn \in {"sanitize", "apply_migrations", "recover_state", "load_persisted_state"}
    /\ ~p_out.panic
    /\ p_in' = Some(p_out.state)
    /\ p_out' = NotCalled
    /\ UNCHANGED <<overflow_checks, gridVars, storageVars, serviceVars>>

(***************************************************************************)
(* LayoutService: the GridManager behind its mutex, and dashboard.json.    *)
(* A LayoutState is [grid, widgets, version].  serde writes a widget's     *)
(* settings only when they are Some (a Some(Null) as null) and reads an    *)
(* absent field and a null as None.                                        *)
(***************************************************************************)
AbsentV == [kind |-> "absent", obj |-> {}]

layout_to_string_pretty(state) ==
    [state EXCEPT !.widgets =
        [i \in DOMAIN @ |-> [@[i] EXCEPT !.settings = IF @ = NoneV THEN AbsentV ELSE @]]]

layout_from_str(doc) ==
    [doc EXCEPT !.widgets =
        [i \in DOMAIN @ |->
            [@[i] EXCEPT !.settings = IF @ \in {AbsentV, NullV} THEN NoneV ELSE @]]]

\* GridManager::state, of the manager as it is and as a call leaves it
manager_state == [grid |-> grid, widgets |-> widgets, version |-> version]

\* LayoutService::snapshot
snapshot == manager_state

state_of(post) == [grid |-> post.grid, widgets |-> post.widgets, version |-> post.version]

\* the manager's fields, as a call that does not touch them leaves them
manager_untouched ==
    [outcome |-> "Ok", widgets |-> widgets, last_valid |-> last_valid, grid |-> grid,
     version |-> version]

default_widgets(gridc) ==
    << [id |-> "notifications-demo", widget_type |-> "notifications", x |-> 0, y |-> 0,
        width |-> 6, height |-> 4, locked |-> FALSE, settings |-> NoneV],
       [id |-> "clock-demo", widget_type |-> "clock",
        x |-> IF gridc.columns >= 4 THEN gridc.columns - 4 ELSE 0, y |-> 0,
        width |-> 4, height |-> 2, locked |-> FALSE,
        settings |-> default_settings_for("clock")] >>

NoDashboard ==
    [exists |-> FALSE, readable |-> FALSE, kind |-> "none",
     doc |-> layout_to_string_pretty([grid |-> [columns |-> GRID_COLUMNS, rows |-> GRID_ROWS],
                                      widgets |-> <<>>, version |-> DEFAULT_VERSION]),
     complete |-> FALSE]

DashboardFile(doc, complete) ==
    [exists |-> TRUE, readable |-> TRUE, kind |-> "json", doc |-> doc, complete |-> complete]

\* [ok, state]
read_from_disk(file) ==
    IF ~file.exists THEN [ok |-> TRUE, state |-> manager_state]
    ELSE IF ~file.readable THEN [ok |-> FALSE, state |-> manager_state]
    ELSE IF file.kind = "json" /\ file.complete
    THEN [ok |-> TRUE, state |-> layout_from_str(file.doc)]
    ELSE [ok |-> FALSE, state |-> manager_state]

\* a write that reports success whatever became of the file
write_to_disk_ignores_failure(file, state, io) ==
    IF io = "refused" THEN [ok |-> TRUE, file |-> file]
    ELSE [ok |-> TRUE,
          file |-> DashboardFile(layout_to_string_pretty(state), io = "ok")]

\* io: "ok"; "refused" (create_dir_all fails, or fs::write cannot open the file);
\* "cut" (fs::write fails after it has truncated the file).  [ok, file]
write_to_disk(file, state, io) ==
    IF io = "refused" THEN [ok |-> FALSE, file |-> file]
    ELSE [ok |-> io = "ok",
          file |-> DashboardFile(layout_to_string_pretty(state), io = "ok")]

IoOutcomes == {"ok", "refused", "cut"}

(* What a call of the service leaves behind and returns:                   *)
(*   manager  the manager's fields, with the outcome of the manager's call *)
(*   outcome  "Ok", "Err" or "Panic";  error  a LayoutError, "write", "none"*)
(*   state    the LayoutState computed by the manager (returned when Ok)   *)
(*   file     dashboard.json                                               *)
ServiceReturn(post, outcome, error, file) ==
    [manager |-> post, outcome |-> outcome, error |-> error, state |-> state_of(post),
     file |-> file]

\* the write of the new state, and the return, of apply_operation and import
write_through(post, io) ==
    LET written == write_to_disk(dashboard, state_of(post), io) IN
    IF written.ok THEN ServiceReturn(post, "Ok", "none", written.file)
    ELSE ServiceReturn(post, "Err", "write", written.file)

\* a service that puts the manager back when the write fails
LayoutService_apply_operation_rolls_back(post, io) ==
    IF post.outcome = "Panic" THEN ServiceReturn(post, "Panic", "none", dashboard)
    ELSE IF post.outcome # "Ok" THEN ServiceReturn(post, "Err", post.outcome, dashboard)
    ELSE IF write_through(post, io).outcome = "Ok" THEN write_through(post, io)
    ELSE [write_through(post, io) EXCEPT !.manager = manager_untouched]

\* post: what manager.apply_operation(operation) left and returned
LayoutService_apply_operation(post, io) ==
    IF post.outcome = "Panic" THEN ServiceReturn(post, "Panic", "none", dashboard)
    ELSE IF post.outcome # "Ok" THEN ServiceReturn(post, "Err", post.outcome, dashboard)
    ELSE write_through(post, io)

LayoutService_import(state, io) ==
    LET post == replace_state(state) IN
    IF post.outcome = "Panic" THEN ServiceReturn(post, "Panic", "none", dashboard)
    ELSE write_through(post, io)

\* a load that takes a file it cannot read for an error of its own
LayoutService_load_strict(disk_state) ==
    IF disk_state.ok
    THEN LET post == replace_state(disk_state.state) IN
         ServiceReturn(post, IF post.outcome = "Panic" THEN "Panic" ELSE "Ok", "none",
                       dashboard)
    ELSE ServiceReturn(manager_untouched, "Err", "read", dashboard)

\* load once read_from_disk has returned disk_state
LayoutService_load(disk_state) ==
    IF disk_state.ok
    THEN LET post == replace_state(disk_state.state) IN
         ServiceReturn(post, IF post.outcome = "Panic" THEN "Panic" ELSE "Ok", "none",
                       dashboard)
    ELSE ServiceReturn(manager_untouched, "Ok", "none", dashboard)

(***************************************************************************)
(* Calls of the service                                                    *)
(***************************************************************************)
MaxServiceWidgets == 3

ServiceIds == {"clock-demo", "a"}

ServiceSlots ==
    [id : {"a"}, x : {6, 252}, y : {0}, width : {3}, height : {4},
     locked : {"none"}, settings : {NoneV}]

\* manager.apply_operation(operation), for the operations the front end sends
ServiceOperations ==
    {AddWidgetResult(t, l) : t \in {"clock", "timer"},
        l \in {sl \in ServiceSlots :
                 Len(widgets) < MaxServiceWidgets /\ (sl.id = NoId => Ids \ IdsOf(widgets) # {})}}
    \cup {MoveWidgetResult(id, 9, 0) : id \in ServiceIds}
    \cup {ResizeWidgetResult(id, 3, 4, NoU8, NoU8) : id \in ServiceIds}
    \cup {RemoveWidgetResult(id) : id \in ServiceIds}
    \cup {SetWidgetLockResult(id, TRUE) : id \in ServiceIds}
    \cup {SetWidgetSettingsResult(id, NullV) : id \in ServiceIds}

ServiceImports ==
    {[grid |-> [columns |-> GRID_COLUMNS, rows |-> GRID_ROWS], widgets |-> <<>>,
      version |-> DEFAULT_VERSION],
     [grid |-> [columns |-> GRID_COLUMNS, rows |-> GRID_ROWS],
      widgets |-> <<ImportWidget("a", "clock", 0, 6), ImportWidget("a", "clock", 3, 3)>>,
      version |-> DEFAULT_VERSION + 1],
     [grid |-> [columns |-> U8Max, rows |-> GRID_ROWS],
      widgets |-> <<ImportWidget("b", "clock", 252, 6)>>, version |-> DEFAULT_VERSION]}

\* changed: the manager's call left a layout other than the one it found
NoCall ==
    [call |-> "none", outcome |-> "Ok", error |-> "none", state |-> manager_state,
     changed |-> FALSE]

Threads == {1, 2}

NotLoading == [pc |-> "idle", disk_state |-> [ok |-> FALSE, state |-> layout_from_str(NoDashboard.doc)]]

\* the call is over: the manager and the file are as it left them
ServiceReturns(call, ret) ==
    /\ widgets' = ret.manager.widgets
    /\ last_valid' = ret.manager.last_valid
    /\ grid' = ret.manager.grid
    /\ version' = ret.manager.version
    /\ last_outcome' = ret.manager.outcome
    /\ panicked' = (ret.outcome = "Panic")
    /\ dashboard' = ret.file
    /\ svc_result' = [call |-> call, outcome |-> ret.outcome, error |-> ret.error,
                      state |-> ret.state, changed |-> ret.state # manager_state]
    /\ UNCHANGED <<overflow_checks, storageVars, pureVars>>

ServiceApplyOperation ==
    /\ ~panicked
    /\ \E post \in ServiceOperations, io \in IoOutcomes :
        ServiceReturns("apply_operation", LayoutService_apply_operation(post, io))
    /\ UNCHANGED load_calls

ServiceImport ==
    /\ ~panicked
    /\ \E state \in ServiceImports, io \in IoOutcomes :
        ServiceReturns("import", LayoutService_import(state, io))
    /\ UNCHANGED load_calls

\* load, from its read of the file to its return, with no other call in between
ServiceLoad ==
    /\ ~panicked
    /\ ServiceReturns("load", LayoutService_load(read_from_disk(dashboard)))
    /\ UNCHANGED load_calls

\* something else removes, damages or rewrites dashboard.json
DashboardChanges ==
    /\ \E file \in {NoDashboard, [DashboardFile(NoDashboard.doc, TRUE) EXCEPT !.kind = "garbage"],
                    [DashboardFile(NoDashboard.doc, TRUE) EXCEPT !.readable = FALSE]}
                   \cup {DashboardFile(layout_to_string_pretty(st), TRUE) : st \in ServiceImports} :
        /\ file # dashboard
        /\ dashboard' = file
    /\ svc_result' = NoCall
    /\ UNCHANGED <<overflow_checks, gridVars, storageVars, pureVars, load_calls>>

(* Calls from several threads.  apply_operation and import hold the lock   *)
(* from their first statement to their return; load reads the file first   *)
(* and takes the lock afterwards.  The writes succeed.                     *)
ThreadOperations ==
    {AddWidgetResult("clock", l) :
        l \in {sl \in ServiceSlots : Len(widgets) < MaxServiceWidgets /\ sl.x = 6}}
    \cup {MoveWidgetResult("a", 9, 0), RemoveWidgetResult("clock-demo"),
          SetWidgetLockResult("a", TRUE)}

ThreadImports ==
    {st \in ServiceImports : st.grid.columns = GRID_COLUMNS /\ st.widgets = <<>>}

LockedApplyOperation ==
    /\ ~panicked
    /\ \E post \in ThreadOperations :
        ServiceReturns("apply_operation", LayoutService_apply_operation(post, "ok"))
    /\ UNCHANGED load_calls

LockedImport ==
    /\ ~panicked
    /\ \E state \in ThreadImports :
        ServiceReturns("import", LayoutService_import(state, "ok"))
    /\ UNCHANGED load_calls

\* let disk_state = self.read_from_disk(app)
LoadReads(t) ==
    /\ ~panicked
    /\ load_calls[t].pc = "idle"
    /\ load_calls' = [load_calls EXCEPT
                        ![t] = [pc |-> "read", disk_state |-> read_from_disk(dashboard)]]
    /\ UNCHANGED <<overflow_checks, gridVars, storageVars, pureVars, dashboard, svc_result>>

\* the match on disk_state, under the lock
LoadLocks(t) ==
    /\ ~panicked
    /\ load_calls[t].pc = "read"
    /\ ServiceReturns("load", LayoutService_load(load_calls[t].disk_state))
    /\ load_calls' = [load_calls EXCEPT ![t] = NotLoading]

ThreadLoadReads == \E t \in Threads : LoadReads(t)

ThreadLoadLocks == \E t \in Threads : LoadLocks(t)

(* save_persisted_state and reset_persisted_state called from two threads. *)
(* Neither command nor save_state takes a lock, so the statements of two   *)
(* save_state calls interleave on the three files.  The directory exists,  *)
(* and fs::copy and fs::write are each taken as one step that succeeds.    *)
SaverFiles == <<pc, save_arg, primary_before, backup_before, crash_at, save_result, load_result, copy_result>>

SaverMoves(t, next_pc, result) ==
    /\ savers' = [savers EXCEPT ![t] = [@ EXCEPT !.pc = next_pc, !.result = result]]
    /\ UNCHANGED <<overflow_checks, gridVars, pureVars, serviceVars, SaverFiles>>

\* save_persisted_state(state), or reset_persisted_state with the default state
SaverEnters(t) ==
    /\ savers[t].pc = "idle"
    /\ \E state \in SaveInputs :
        savers' = [savers EXCEPT ![t] = [pc |-> "backup", arg |-> state, result |-> "none"]]
    /\ UNCHANGED <<overflow_checks, gridVars, pureVars, serviceVars, SaverFiles,
                   primary, backup, temp>>

\* if state_path.exists() { fs::copy(&state_path, &backup_path) }
SaverBacksUp(t) ==
    /\ savers[t].pc = "backup"
    /\ backup' = IF primary.exists THEN primary ELSE backup
    /\ UNCHANGED <<primary, temp>>
    /\ SaverMoves(t, "write", "none")

\* fs::write(&temp_path, &json)
SaverWritesTemp(t) ==
    /\ savers[t].pc = "write"
    /\ temp' = JsonFile(to_string_pretty(savers[t].arg), TRUE)
    /\ UNCHANGED <<primary, backup>>
    /\ SaverMoves(t, "rename", "none")

\* fs::rename(&temp_path, &state_path), and the return
SaverRenames(t) ==
    /\ savers[t].pc = "rename"
    /\ IF temp.exists
       THEN /\ primary' = temp
            /\ temp' = Missing
            /\ SaverMoves(t, "idle", "Ok")
       ELSE /\ UNCHANGED <<primary, temp>>
            /\ SaverMoves(t, "idle", "Err")
    /\ UNCHANGED backup

ThreadSaverEnters == \E t \in Threads : SaverEnters(t)

ThreadSaverBacksUp == \E t \in Threads : SaverBacksUp(t)

ThreadSaverWritesTemp == \E t \in Threads : SaverWritesTemp(t)

ThreadSaverRenames == \E t \in Threads : SaverRenames(t)

(***************************************************************************)
(* Specifications                                                          *)
(***************************************************************************)
GridAtRest ==
    /\ grid = [columns |-> GRID_COLUMNS, rows |-> GRID_ROWS]
    /\ widgets = <<>>
    /\ last_valid = <<>>
    /\ version = DEFAULT_VERSION
    /\ last_outcome = "Ok"
    /\ panicked = FALSE

StorageAtRest ==
    /\ temp = Missing
    /\ pc = "idle"
    /\ save_arg = DefaultPersistedState
    /\ primary_before = Missing
    /\ backup_before = Missing
    /\ crash_at = "none"
    /\ save_result = "none"
    /\ load_result = NotLoaded
    /\ copy_result = "none"
    /\ savers = [t \in Threads |-> NotSaving]

ServiceAtRest ==
    /\ dashboard = NoDashboard
    /\ svc_result = NoCall
    /\ load_calls = [t \in Threads |-> NotLoading]

\* GridManager::new(GRID_COLUMNS, GRID_ROWS, WidgetRegistry::new())
InitGrid ==
    /\ overflow_checks \in BOOLEAN
    /\ GridAtRest
    /\ StorageAtRest /\ primary = Missing /\ backup = Missing
    /\ p_in = None /\ p_out = NotCalled
    /\ ServiceAtRest

NextGrid ==
    \/ AddWidget
    \/ MoveWidget
    \/ ResizeWidget
    \/ RemoveWidget
    \/ SetWidgetLock
    \/ SetWidgetSettings
    \/ ReplaceState

SpecGrid == InitGrid /\ [][NextGrid]_vars

\* the application data directory before the first save
InitStorage ==
    /\ overflow_checks \in BOOLEAN
    /\ GridAtRest
    /\ StorageAtRest /\ primary = Missing /\ backup = Missing
    /\ p_in = None /\ p_out = NotCalled
    /\ ServiceAtRest

NextStorage ==
    \/ SaveState
    \/ CreateDirAll
    \/ CopyStarts
    \/ CopyEnds
    \/ WriteStarts
    \/ WriteEnds
    \/ Rename
    \/ SaveOk
    \/ Crash
    \/ LoadState
    \/ Damage
    \/ DamageBackup

SpecStorage == InitStorage /\ [][NextStorage]_vars

\* an argument for the functions, or a pair of state files for the command
InitRecovery ==
    /\ overflow_checks \in BOOLEAN
    /\ GridAtRest
    /\ StorageAtRest
    /\ ServiceAtRest
    /\ p_out = NotCalled
    /\ \/ /\ p_in \in {None} \cup {Some(s) : s \in PersistedStateInputs \cup RoundTripInputs}
          /\ primary = Missing /\ backup = Missing
       \/ /\ p_in = None
          /\ primary \in FileInputs /\ backup \in FileInputs

NextRecovery ==
    \/ Validate
    \/ Sanitize
    \/ ApplyMigrations
    \/ CheckCompatibility
    \/ IsSafeToMigrate
    \/ RoundTrip
    \/ RecoverState
    \/ LoadPersistedState
    \/ PassOn

SpecRecovery == InitRecovery /\ [][NextRecovery]_vars

\* LayoutService::new(GRID_COLUMNS, GRID_ROWS), before dashboard.json exists
InitService ==
    /\ overflow_checks \in BOOLEAN
    /\ grid = [columns |-> GRID_COLUMNS, rows |-> GRID_ROWS]
    /\ widgets = set_widgets(GRID_COLUMNS, GRID_ROWS, default_widgets(grid)).next
    /\ last_valid = widgets
    /\ version = DEFAULT_VERSION
    /\ last_outcome = "Ok"
    /\ panicked = FALSE
    /\ StorageAtRest /\ primary = Missing /\ backup = Missing
    /\ p_in = None /\ p_out = NotCalled
    /\ ServiceAtRest

NextService ==
    \/ ServiceApplyOperation
    \/ ServiceImport
    \/ ServiceLoad
    \/ DashboardChanges

SpecService == InitService /\ [][NextService]_vars

NextThreads ==
    \/ LockedApplyOperation
    \/ LockedImport
    \/ ThreadLoadReads
    \/ ThreadLoadLocks

SpecThreads == InitService /\ [][NextThreads]_vars

\* the application data directory as delete_state may find it
InitDelete ==
    /\ overflow_checks \in BOOLEAN
    /\ GridAtRest
    /\ pc = "idle"
    /\ save_arg = DefaultPersistedState
    /\ primary_before = Missing
    /\ backup_before = Missing
    /\ crash_at = "none"
    /\ save_result = "none"
    /\ load_result = NotLoaded
    /\ copy_result = "none"
    /\ savers = [t \in Threads |-> NotSaving]
    /\ primary \in FileInputs
    /\ backup \in FileInputs
    /\ temp \in {Missing, JsonFile(to_string_pretty(DefaultPersistedState), FALSE)}
    /\ p_in = None /\ p_out = NotCalled
    /\ ServiceAtRest

NextDelete ==
    \/ DeleteState
    \/ LoadState

SpecDelete == InitDelete /\ [][NextDelete]_vars

NextSavers ==
    \/ ThreadSaverEnters
    \/ ThreadSaverBacksUp
    \/ ThreadSaverWritesTemp
    \/ ThreadSaverRenames

SpecSavers == InitStorage /\ [][NextSavers]_vars

(***************************************************************************)
(* Geometry in unbounded integers, as the specification states it          *)
(***************************************************************************)
LayoutErrors == {"UnknownWidget", "UnknownId", "Collision", "OutOfBounds",
                 "InvalidSize", "Locked"}

\* the half-open rectangles of a and b have a cell in common
CellsShare(a, b) ==
    /\ a.x < b.x + b.width
    /\ b.x < a.x + a.width
    /\ a.y < b.y + b.height
    /\ b.y < a.y + a.height

InGrid(w) == w.x + w.width <= grid.columns /\ w.y + w.height <= grid.rows

ValidSize(w) ==
    /\ w.widget_type \in RegisteredTypes
    /\ w.width >= constraints_for(w.widget_type).min_width
    /\ w.width <= constraints_for(w.widget_type).max_width
    /\ w.height >= constraints_for(w.widget_type).min_height
    /\ w.height <= constraints_for(w.widget_type).max_height

SharesCellWithOther(ws, candidate) ==
    \E i \in 1..Len(ws) : ws[i].id # candidate.id /\ CellsShare(ws[i], candidate)

(***************************************************************************)
(* C1: after any sequence of GridManager operations no two widgets of the  *)
(* widget set overlap and every widget lies inside the current grid        *)
(* (x + width <= columns, y + height <= rows).                             *)
(***************************************************************************)
C1_NoOverlapInsideGrid ==
    ~panicked =>
        /\ \A i, j \in 1..Len(widgets) : i # j => ~CellsShare(widgets[i], widgets[j])
        /\ \A i \in 1..Len(widgets) : InGrid(widgets[i])

(***************************************************************************)
(* C2: an apply_operation call that returns a LayoutError leaves the       *)
(* widget set, the grid and the version as they were before the call.      *)
(***************************************************************************)
C2_ErrorLeavesStateUnchanged ==
    [][last_outcome' \in LayoutErrors =>
          (widgets' = widgets /\ grid' = grid /\ version' = version)]_vars

C2_Witness ==
    /\ last_outcome \in LayoutErrors
    /\ Len(widgets) > 0

(***************************************************************************)
(* C3: in every reachable GridManager state, states produced by            *)
(* replace_state included, widget ids are pairwise distinct.               *)
(***************************************************************************)
C3_IdsPairwiseDistinct ==
    ~panicked =>
        \A i, j \in 1..Len(widgets) : i # j => widgets[i].id # widgets[j].id

(***************************************************************************)
(* C6: for a candidate of registered type and valid size that lies inside  *)
(* the grid, AddWidget with a fresh id and MoveWidget / ResizeWidget of an *)
(* unlocked widget fail with Collision exactly when the candidate shares a *)
(* cell with an existing widget of another id, and succeed otherwise.      *)
(***************************************************************************)
CollisionDecides(candidate, result) ==
    (ValidSize(candidate) /\ InGrid(candidate)) =>
        result.outcome = IF SharesCellWithOther(widgets, candidate)
                         THEN "Collision" ELSE "Ok"

AddCandidate(widget_type, layout) ==
    [id |-> IF layout.id # NoId THEN layout.id ELSE generated_id(widgets),
     widget_type |-> widget_type, x |-> layout.x, y |-> layout.y,
     width |-> layout.width, height |-> layout.height]

C6_CollisionIffCellsShared ==
    ~panicked =>
        /\ \A widget_type \in TypeInputs, layout \in SlotInputs :
              (Ids \ IdsOf(widgets) # {} /\ layout.id \notin IdsOf(widgets))
              => CollisionDecides(AddCandidate(widget_type, layout),
                                  AddWidgetResult(widget_type, layout))
        /\ \A i \in 1..Len(widgets), x \in XInputs, y \in YInputs :
              ~widgets[i].locked
              => CollisionDecides([widgets[i] EXCEPT !.x = x, !.y = y],
                                  MoveWidgetResult(widgets[i].id, x, y))
        /\ \A i \in 1..Len(widgets), width \in WidthInputs, height \in HeightInputs,
              x \in XInputs, y \in YInputs :
              ~widgets[i].locked
              => CollisionDecides([widgets[i] EXCEPT !.width = width, !.height = height,
                                                     !.x = x, !.y = y],
                                  ResizeWidgetResult(widgets[i].id, width, height, x, y))

BeforeRename == {"create_dir_all", "copy", "copying", "write", "writing", "rename"}

C4_SaveIsAtomic ==
    /\ (pc \in BeforeRename \/ crash_at \in BeforeRename) => primary = primary_before
    /\ (crash_at \in BeforeRename /\ load_result # NotLoaded) =>
          /\ read_and_parse(primary_before).ok =>
                load_result = OkSome(read_and_parse(primary_before).state)
          /\ ~primary_before.exists => load_result = OkNone
    /\ ((crash_at = "renamed" \/ save_result = "Ok") /\ load_result # NotLoaded) =>
          load_result = OkSome(save_arg)
    /\ load_result.kind = "OkSome" => load_result.state \in SaveInputs

\* a load after a crash inside the write of the temp file returned the old state
C4_Witness ==
    /\ crash_at = "writing"
    /\ primary_before.exists
    /\ load_result.kind = "OkSome"
    /\ load_result.state # save_arg

(***************************************************************************)
(* C5: load_persisted_state returns Ok with a state whatever the primary   *)
(* and the backup file are, and when the storage layer or the migration    *)
(* fails it returns the default state (the Reset outcome).                 *)
(***************************************************************************)
C5_LoadNeverFails ==
    p_out.fn = "load_persisted_state" =>
        /\ ~p_out.panic
        /\ (load_state(primary, backup).kind = "Err"
            \/ ~apply_migrations(load_state(primary, backup).state).ok) =>
                (p_out.mode = "Reset" /\ p_out.state = DefaultPersistedState)

(***************************************************************************)
(* C8: recover_state is total and returns: for None, Reset, the default    *)
(* state at CURRENT_VERSION and a report of one entry; for a state that    *)
(* validates without warnings, Clean, the state and an empty report; for a *)
(* state with warnings, sanitize(s) with Sanitized and the warnings of s   *)
(* when sanitize(s) validates without warnings, and with Partial and the   *)
(* warnings of sanitize(s) otherwise.                                      *)
(***************************************************************************)
C8_RecoverStateTotalAndClassifies ==
    p_out.fn = "recover_state" =>
        /\ ~p_out.panic
        /\ ~p_in.some =>
              /\ p_out.mode = "Reset"
              /\ p_out.state = DefaultPersistedState
              /\ p_out.state.version = CURRENT_VERSION
              /\ Len(p_out.report) = 1
        /\ (p_in.some /\ validate(p_in.val).warnings = <<>>) =>
              (p_out.mode = "Clean" /\ p_out.state = p_in.val /\ p_out.report = <<>>)
        /\ (p_in.some /\ validate(p_in.val).warnings # <<>>) =>
              /\ p_out.state = sanitize(p_in.val).state
              /\ IF validate(sanitize(p_in.val).state).warnings = <<>>
                 THEN p_out.mode = "Sanitized" /\ p_out.report = validate(p_in.val).warnings
                 ELSE /\ p_out.mode = "Partial"
                      /\ p_out.report = validate(sanitize(p_in.val).state).warnings

(***************************************************************************)
(* C9: the grid of every state recover_state returns has 6 to 100 columns  *)
(* and 4 to 100 rows.                                                      *)
(***************************************************************************)
C9_RecoveredGridInRange ==
    (p_out.fn = "recover_state" /\ ~p_out.panic) =>
        LET g == p_out.state.layout.grid IN
        /\ Le32(U32(6), g.columns) /\ Le32(g.columns, U32(100))
        /\ Le32(U32(4), g.rows) /\ Le32(g.rows, U32(100))

(***************************************************************************)
(* C10: sanitize is idempotent: sanitizing what sanitize returned returns  *)
(* it again, equal in every field.                                         *)
(***************************************************************************)
C10_SanitizeIdempotent ==
    (p_out.fn = "sanitize" /\ ~p_out.panic) =>
        sanitize(p_out.state) = [panic |-> FALSE, state |-> p_out.state]

\* sanitize changed the grid, the widget list and the refresh interval of its argument
C10_Witness ==
    /\ p_out.fn = "sanitize" /\ ~p_out.panic /\ p_in.some
    /\ p_out.state.layout.grid # p_in.val.layout.grid
    /\ Len(p_out.state.layout.widgets) = 1
    /\ Len(p_in.val.layout.widgets) = 2
    /\ p_out.state.preferences.refresh_interval # p_in.val.preferences.refresh_interval

(***************************************************************************)
(* C11: what sanitize returns has columns = clamp(columns, 6, 100), rows = *)
(* clamp(rows, 4, 100), refreshInterval = clamp(refreshInterval, 1000,     *)
(* 60000), no widget of zero width or height, no widget that extends past  *)
(* the clamped grid (in true, unbounded arithmetic), and no repeated id;   *)
(* and validate reports none of the grid, widget, duplicate-id and         *)
(* refresh-interval warnings on it.                                        *)
(***************************************************************************)
\* x + width > limit in unbounded arithmetic
ExtendsPast(a, b, limit) == Add32(a, b).overflow \/ Lt32(limit, Add32(a, b).v)

SanitizeWarningKinds ==
    {"zero grid", "large grid", "outside grid bounds", "zero size", "duplicate id",
     "refresh interval < 1s", "refresh interval > 60s"}

C11_SanitizeEstablishesBounds ==
    (p_out.fn = "sanitize" /\ ~p_out.panic) =>
        LET s == p_in.val
            t == p_out.state
            g == t.layout.grid
            ws == t.layout.widgets
            after == validate(t)
        IN  /\ g.columns = Clamp32(s.layout.grid.columns, U32(6), U32(100))
            /\ g.rows = Clamp32(s.layout.grid.rows, U32(4), U32(100))
            /\ t.preferences.refresh_interval
                  = ClampInt(s.preferences.refresh_interval, 1000, 60000)
            /\ \A i \in 1..Len(ws) :
                  /\ ws[i].width # U32(0) /\ ws[i].height # U32(0)
                  /\ ~ExtendsPast(ws[i].x, ws[i].width, g.columns)
                  /\ ~ExtendsPast(ws[i].y, ws[i].height, g.rows)
            /\ \A i, j \in 1..Len(ws) : ws[i].id = ws[j].id => i = j
            /\ ~after.panic
            /\ \A k \in 1..Len(after.warnings) :
                  after.warnings[k].kind \notin SanitizeWarningKinds

(***************************************************************************)
(* C12: when the widget list holds two widgets with one id, sanitize       *)
(* leaves exactly one widget with that id, and it is the first of the two, *)
(* whatever the geometry of the two.                                       *)
(***************************************************************************)
C12_FirstOfDuplicatesSurvives ==
    (p_out.fn = "sanitize" /\ ~p_out.panic /\ p_in.some
        /\ Len(p_in.val.layout.widgets) = 2
        /\ p_in.val.layout.widgets[1].id = p_in.val.layout.widgets[2].id) =>
        p_out.state.layout.widgets = <<p_in.val.layout.widgets[1]>>

(***************************************************************************)
(* C13: the widget list sanitize returns is a subsequence of the list it   *)
(* was given, each surviving widget with all its fields as they were, and  *)
(* version, app settings and every preference but the refresh interval are *)
(* as they were.                                                           *)
(***************************************************************************)
RECURSIVE IsSubsequence(_, _)
IsSubsequence(sub, full) ==
    IF sub = <<>> THEN TRUE
    ELSE IF full = <<>> THEN FALSE
    ELSE IF Head(sub) = Head(full) THEN IsSubsequence(Tail(sub), Tail(full))
    ELSE IsSubsequence(sub, Tail(full))

C13_SanitizeFrame ==
    (p_out.fn = "sanitize" /\ ~p_out.panic) =>
        /\ IsSubsequence(p_out.state.layout.widgets, p_in.val.layout.widgets)
        /\ p_out.state.version = p_in.val.version
        /\ p_out.state.app_settings = p_in.val.app_settings
        /\ [p_out.state.preferences EXCEPT !.refresh_interval = 0]
              = [p_in.val.preferences EXCEPT !.refresh_interval = 0]

\* sanitize dropped the first of two widgets with different ids, and kept the second
C13_Witness ==
    /\ p_out.fn = "sanitize" /\ ~p_out.panic /\ p_in.some
    /\ Len(p_in.val.layout.widgets) = 2
    /\ p_in.val.layout.widgets[1].id # p_in.val.layout.widgets[2].id
    /\ p_out.state.layout.widgets = <<p_in.val.layout.widgets[2]>>
    /\ p_in.val.version # CURRENT_VERSION

(***************************************************************************)
(* C14: load_state returns Ok(None) when there is no primary file, backup  *)
(* or not; the primary's state when the primary can be read and parsed;    *)
(* otherwise the backup's state when the backup can be read and parsed,    *)
(* and an error when it cannot; the temp file has no part in the result,   *)
(* and the call changes none of the three files.                           *)
(***************************************************************************)
Loadable(file) ==
    file.exists /\ file.readable /\ file.kind = "json" /\ file.complete

C14_LoadStateFallsBack ==
    [][(load_result' # load_result /\ load_result' # NotLoaded) =>
          /\ primary' = primary /\ backup' = backup /\ temp' = temp
          /\ ~primary.exists => load_result' = OkNone
          /\ Loadable(primary) => load_result' = OkSome(from_str(primary.doc))
          /\ (primary.exists /\ ~Loadable(primary) /\ Loadable(backup)) =>
                load_result' = OkSome(from_str(backup.doc))
          /\ (primary.exists /\ ~Loadable(primary) /\ ~Loadable(backup)) =>
                load_result' = Err]_vars

\* load_state fell back to the backup while a temp file held another state
C14_Witness ==
    /\ load_result.kind = "OkSome"
    /\ primary.exists /\ ~Loadable(primary)
    /\ temp.exists /\ temp.doc # backup.doc

(***************************************************************************)
(* C15: when a save_state that found a primary file returns Ok, the backup *)
(* file holds what the primary held when the save was entered, if the copy *)
(* succeeded; and a failing copy does not end the save: the save goes on,  *)
(* and when it returns Ok the primary holds the new state.                 *)
(***************************************************************************)
C15_BackupIsBestEffort ==
    [][/\ (save_result' = "Ok" /\ primary_before'.exists /\ copy_result' = "ok") =>
             backup' = primary_before'
       /\ pc \in {"copy", "copying"} =>
             (save_result' = save_result /\ pc' \in {"copying", "write", "crashed"})
       /\ save_result' = "Ok" =>
             primary' = JsonFile(to_string_pretty(save_arg'), TRUE)]_vars

\* a save returned Ok over a primary that could not be copied
C15_Witness ==
    /\ save_result = "Ok" /\ pc = "idle"
    /\ primary_before.exists
    /\ copy_result = "failed"
    /\ primary = JsonFile(to_string_pretty(save_arg), TRUE)

\* C16: when apply_operation or import has changed the manager and the write of
\* dashboard.json fails, the call returns an error and the manager keeps the
\* change: snapshot() returns the layout the manager computed.
C16_WriteFailureKeepsMutation ==
    (svc_result.call \in {"apply_operation", "import"} /\ svc_result.error = "write")
        => /\ svc_result.outcome = "Err"
           /\ snapshot = svc_result.state

C16_Witness ==
    /\ svc_result.call = "apply_operation"
    /\ svc_result.error = "write"
    /\ svc_result.changed
    /\ snapshot = svc_result.state
    /\ dashboard # DashboardFile(layout_to_string_pretty(snapshot), TRUE)

\* C17: with one call at a time, after an apply_operation or import that
\* returns Ok, dashboard.json holds the returned state, which is the state in
\* memory; an apply_operation refused with a LayoutError leaves the file alone.
C17_WriteThrough ==
    [][ /\ (svc_result'.call \in {"apply_operation", "import"} /\ svc_result'.outcome = "Ok")
            => /\ dashboard' = DashboardFile(layout_to_string_pretty(svc_result'.state), TRUE)
               /\ svc_result'.state = snapshot'
        /\ (svc_result'.call = "apply_operation" /\ svc_result'.error \in LayoutErrors)
            => dashboard' = dashboard ]_vars

C17_Witness ==
    /\ svc_result.call = "apply_operation"
    /\ svc_result.outcome = "Ok"
    /\ svc_result.changed
    /\ dashboard = DashboardFile(layout_to_string_pretty(snapshot), TRUE)

\* C18: load never returns an error and never writes dashboard.json; when the
\* file is missing, unreadable or unparsable it returns the layout in memory
\* and leaves grid, widgets and version as they were.
C18_LoadFallsBackToMemory ==
    [][ svc_result'.call = "load"
        => /\ svc_result'.outcome # "Err"
           /\ dashboard' = dashboard
           /\ ~(dashboard.exists /\ dashboard.readable /\ dashboard.kind = "json"
                 /\ dashboard.complete)
               => /\ svc_result'.outcome = "Ok"
                  /\ svc_result'.state = snapshot
                  /\ snapshot' = snapshot ]_vars

\* a failed write has cut dashboard.json short, and load answers from memory
C18_Witness ==
    /\ svc_result.call = "load"
    /\ svc_result.outcome = "Ok"
    /\ dashboard.exists /\ dashboard.kind = "json" /\ ~dashboard.complete
    /\ svc_result.state = snapshot
    /\ widgets # <<>>

\* C19: with the writes succeeding, whenever no call of load, apply_operation
\* or import is under way, the layout in memory is the content of
\* dashboard.json: no call has put back a state read before a later
\* successful apply_operation ran.
C19_CallsAreAtomic ==
    (~panicked /\ dashboard.exists /\ \A t \in Threads : load_calls[t].pc = "idle")
        => dashboard = DashboardFile(layout_to_string_pretty(snapshot), TRUE)

\* C20: two overlapping save_persisted_state / reset_persisted_state calls
\* both return Ok, and the primary file, once it exists, holds one of the
\* saved states in full.
C20_SavesAreSerialized ==
    /\ \A t \in Threads : savers[t].result # "Err"
    /\ primary.exists
        => \E state \in SaveInputs : primary = JsonFile(to_string_pretty(state), TRUE)

\* the widgets of input that pass validation against those kept before them
RECURSIVE GreedyRepair(_, _, _)
GreedyRepair(g, input, kept) ==
    IF input = <<>> THEN kept
    ELSE LET w == Head(input)
             passes == /\ ValidSize(w)
                       /\ w.x + w.width <= g.columns
                       /\ w.y + w.height <= g.rows
                       /\ ~SharesCellWithOther(kept, w)
         IN  GreedyRepair(g, Tail(input),
                          IF passes THEN Append(kept, apply_widget_defaults(w)) ELSE kept)

\* C21: replace_state never fails; the grid and the version become those of
\* the input, and the widgets become the input's widgets, in order, each kept
\* exactly when it has a registered type, a size within the type's limits,
\* lies inside the new grid and collides with no widget kept before it.
C21_ReplaceStateIsGreedyRepair ==
    ~panicked =>
        \A h \in HeaderInputs, ws \in SeqsUpTo(ImportWidgets, MaxImport) :
            LET r == replace_state([grid |-> h.grid, widgets |-> ws, version |-> h.version]) IN
            /\ r.outcome = "Ok"
            /\ r.grid = h.grid
            /\ r.version = h.version
            /\ r.widgets = GreedyRepair(h.grid, ws, <<>>)

\* C22: in every reachable GridManager state each widget has a registered
\* type and a width and height within that type's minimum and maximum.
C22_TypesRegisteredSizesWithinLimits ==
    \A i \in 1..Len(widgets) : ValidSize(widgets[i])

\* a request with a size outside the type's limits has just been refused
C22_Witness ==
    /\ last_outcome = "InvalidSize"
    /\ Len(widgets) > 0
    /\ \A i \in 1..Len(widgets) : ValidSize(widgets[i])

\* C23: MoveWidget, ResizeWidget, RemoveWidget, SetWidgetLock and
\* SetWidgetSettings addressed to an id that no widget has each fail with
\* UnknownId and leave the widget set unchanged.
UnknownIdLeavesWidgets(r) == r.outcome = "UnknownId" /\ r.widgets = widgets

C23_UnknownIdFails ==
    ~panicked =>
        \A id \in Ids \ IdsOf(widgets) :
            /\ \A x \in XInputs, y \in YInputs :
                  UnknownIdLeavesWidgets(MoveWidgetResult(id, x, y))
            /\ \A width \in WidthInputs, height \in HeightInputs,
                  x \in XInputs \cup {NoU8}, y \in YInputs \cup {NoU8} :
                  UnknownIdLeavesWidgets(ResizeWidgetResult(id, width, height, x, y))
            /\ UnknownIdLeavesWidgets(RemoveWidgetResult(id))
            /\ \A locked \in BOOLEAN :
                  UnknownIdLeavesWidgets(SetWidgetLockResult(id, locked))
            /\ \A settings \in ValueInputs :
                  UnknownIdLeavesWidgets(SetWidgetSettingsResult(id, settings))

\* a call for an id that is not there has been refused beside another widget
C23_Witness ==
    /\ last_outcome = "UnknownId"
    /\ Len(widgets) = 1
    /\ Ids \ IdsOf(widgets) # {}

\* settings a caller may hand to AddWidget: none, null, another non-object
\* value, an object overriding one default key and adding one of its own
SettingsCases ==
    {NoneV, NullV, ScalarV, ObjectV({<<"timeFormat", "24h">>, <<"accent", "red">>})}

\* what the merge is to store for a type with defaults
MergedSettings(defaults, given) ==
    IF given = NoneV THEN defaults
    ELSE IF given.kind = "object"
    THEN ObjectV(given.obj \cup {p \in defaults.obj : p[1] \notin Keys(given.obj)})
    ELSE given

\* C24: for a widget type with default settings, AddWidget stores the
\* defaults when the caller gives no settings, the defaults with the caller's
\* top-level keys replacing those of the same name when the caller gives an
\* object, and the caller's value itself when it is any non-object value.
C24_SettingsMerge ==
    ~panicked =>
        \A given \in SettingsCases, layout \in SlotInputs :
            (layout.id = NoId => Ids \ IdsOf(widgets) # {}) =>
                LET r == AddWidgetResult("clock", [layout EXCEPT !.settings = given])
                    id == AddCandidate("clock", layout).id
                IN  r.outcome = "Ok" =>
                        r.widgets[find(r.widgets, id)].settings
                            = MergedSettings(default_settings_for("clock"), given)

\* after is before with, at most, the named field of the widgets of that id changed
OnlyFieldChanged(before, after, id, field) ==
    /\ Len(after) = Len(before)
    /\ \A j \in 1..Len(before) :
          IF before[j].id = id
          THEN \A f \in DOMAIN before[j] \ {field} : after[j][f] = before[j][f]
          ELSE after[j] = before[j]

\* C25: SetWidgetLock and SetWidgetSettings succeed whenever a widget has the
\* id, locked or not, and change nothing but that widget's locked flag
\* (SetWidgetLock, which sets it to the argument) or settings
\* (SetWidgetSettings): its place, size, id and type, every other widget, the
\* order of the list, the grid and the version stay as they were.
C25_LockAndSettingsAreFieldUpdates ==
    ~panicked =>
        \A id \in IdsOf(widgets) :
            /\ \A locked \in BOOLEAN :
                  LET r == SetWidgetLockResult(id, locked) IN
                  /\ r.outcome = "Ok"
                  /\ OnlyFieldChanged(widgets, r.widgets, id, "locked")
                  /\ r.widgets[find(r.widgets, id)].locked = locked
                  /\ r.grid = grid /\ r.version = version
            /\ \A settings \in ValueInputs \cup (SettingsCases \ {NoneV}) :
                  LET r == SetWidgetSettingsResult(id, settings) IN
                  /\ r.outcome = "Ok"
                  /\ OnlyFieldChanged(widgets, r.widgets, id, "settings")
                  /\ r.grid = grid /\ r.version = version

\* the class the version distance calls for
ClassByDistance(v) ==
    IF v > CURRENT_VERSION THEN "FutureVersion"
    ELSE IF v = CURRENT_VERSION THEN "FullyCompatible"
    ELSE IF CURRENT_VERSION - v <= 2 THEN "MigrationAvailable"
    ELSE IF CURRENT_VERSION - v <= 5 THEN "MigrationRisky"
    ELSE "Incompatible"

CallsForWarning(s) ==
    LET g == s.layout.grid
        ws == s.layout.widgets
    IN  \/ s.version > CURRENT_VERSION
        \/ g.columns = U32(0) \/ g.rows = U32(0)
        \/ Lt32(U32(100), g.columns) \/ Lt32(U32(100), g.rows)
        \/ \E i \in 1..Len(ws) :
              \/ ExtendsPast(ws[i].x, ws[i].width, g.columns)
              \/ ExtendsPast(ws[i].y, ws[i].height, g.rows)
              \/ ws[i].width = U32(0) \/ ws[i].height = U32(0)
        \/ \E i, j \in 1..Len(ws) : i # j /\ ws[i].id = ws[j].id
        \/ s.preferences.refresh_interval < 1000
        \/ s.preferences.refresh_interval > 60000

\* C29: validate(s) returns, and its warning list is empty exactly when s has
\* no version above the current one, no zero grid dimension, none above 100,
\* no widget with x+width > columns or y+height > rows, none of zero width
\* or height, no id shared by two widgets, and a refresh interval within
\* 1000..60000; validate leaves s as it is.
C29_ValidateWarnsExactly ==
    p_out.fn = "validate" =>
        /\ ~p_out.panic
        /\ p_out.report = <<>> <=> ~CallsForWarning(p_in.val)
        /\ p_out.state = p_in.val

\* C30: for every well-formed PersistedState s, with widget settings absent,
\* null or structured and the window position absent or present,
\* deserialize(serialize(s)) equals s field for field.
C30_SerializationRoundTrips ==
    p_out.fn = "round_trip" => p_out.state = p_in.val

Count(b) == IF b THEN 1 ELSE 0

\* C31: when delete_state returns Ok, the primary and the backup file are
\* gone, and so is the temp file unless its removal was refused; the number
\* returned, 0 to 3, is the number of files removed; a load_state that
\* follows returns Ok(None).
C31_DeleteRemovesAndCounts ==
    (p_out.fn = "delete_state" /\ p_out.mode = "Ok") =>
        LET found == p_out.report[1] IN
        /\ ~primary.exists /\ ~backup.exists
        /\ temp.exists => (found.had_temp /\ found.temp_refused)
        /\ found.deleted \in 0..3
        /\ found.deleted = Count(found.had_primary) + Count(found.had_backup)
                             + Count(found.had_temp /\ ~temp.exists)
        /\ load_state(primary, backup) = OkNone
        /\ load_result # NotLoaded => load_result = OkNone

\* all three files were there, three were removed, and load_state has run
C31_Witness ==
    /\ p_out.fn = "delete_state" /\ p_out.mode = "Ok"
    /\ p_out.report[1].deleted = 3
    /\ load_result = OkNone

(***************************************************************************)
(* C32: a candidate of registered type and valid size whose true x + width *)
(* exceeds the columns, or whose true y + height exceeds the rows, is      *)
(* rejected with OutOfBounds and the call returns: sums above 255 are      *)
(* neither accepted after wrapping nor a panic.                            *)
(***************************************************************************)
C32_BoundsCheckIsExact ==
    ~panicked =>
        /\ \A widget_type \in TypeInputs, layout \in SlotInputs :
              LET candidate == AddCandidate(widget_type, layout) IN
              (/\ layout.id # NoId \/ Ids \ IdsOf(widgets) # {}
               /\ ValidSize(candidate) /\ ~InGrid(candidate))
              => AddWidgetResult(widget_type, layout).outcome = "OutOfBounds"
        /\ \A id \in IdsOf(widgets), x \in XInputs, y \in YInputs :
              LET candidate == [widgets[find(widgets, id)] EXCEPT !.x = x, !.y = y] IN
              (~candidate.locked /\ ValidSize(candidate) /\ ~InGrid(candidate))
              => MoveWidgetResult(id, x, y).outcome = "OutOfBounds"

Geometry(w) == <<w.id, w.widget_type, w.x, w.y, w.width, w.height>>

\* the widget at index i is still there with its type and geometry
KeepsGeometry(i, result) ==
    result.outcome # "Panic" =>
        /\ i <= Len(result.widgets)
        /\ Geometry(result.widgets[i]) = Geometry(widgets[i])

(***************************************************************************)
(* C33: while a widget is locked, no apply_operation that leaves it in the *)
(* widget set changes its x, y, width, height or type; AddWidget with the  *)
(* id of a locked widget does not replace its geometry.                    *)
(***************************************************************************)
C33_LockedGeometryIsFrozen ==
    ~panicked =>
        \A i \in 1..Len(widgets) :
            widgets[i].locked =>
                /\ \A widget_type \in TypeInputs, layout \in SlotInputs :
                      (layout.id # NoId \/ Ids \ IdsOf(widgets) # {})
                      => KeepsGeometry(i, AddWidgetResult(widget_type, layout))
                /\ \A id \in Ids, x \in XInputs, y \in YInputs :
                      KeepsGeometry(i, MoveWidgetResult(id, x, y))
                /\ \A id \in Ids, width \in WidthInputs, height \in HeightInputs,
                      x \in XInputs \cup {NoU8}, y \in YInputs \cup {NoU8} :
                      KeepsGeometry(i, ResizeWidgetResult(id, width, height, x, y))
                /\ \A id \in Ids, locked \in BOOLEAN :
                      KeepsGeometry(i, SetWidgetLockResult(id, locked))
                /\ \A id \in Ids, settings \in ValueInputs :
                      KeepsGeometry(i, SetWidgetSettingsResult(id, settings))

\* what load_state would have returned when the latest save_state was entered
LoadableBefore == load_state(primary_before, backup_before)

(***************************************************************************)
(* C34: a save never destroys the last loadable copy.  If load_state would *)
(* have returned a state when save_state was entered (from the primary, or *)
(* from the backup because the primary is corrupt), then after a crash     *)
(* anywhere inside that save_state load_state returns a state, and it is   *)
(* the state loadable before or the state being saved.                     *)
(***************************************************************************)
C34_SaveKeepsALoadableCopy ==
    (crash_at # "none" /\ LoadableBefore.kind = "OkSome") =>
        /\ load_state(primary, backup).kind = "OkSome"
        /\ load_state(primary, backup).state \in {LoadableBefore.state, save_arg}
        /\ load_result # NotLoaded => load_result = load_state(primary, backup)

(***************************************************************************)
(* C35: recover_state on a state returns Partial exactly when the state's  *)
(* version is above CURRENT_VERSION; for every version up to               *)
(* CURRENT_VERSION it returns Clean or Sanitized, and the state returned   *)
(* validates without warnings.                                             *)
(***************************************************************************)
C35_PartialIffNewerVersion ==
    (p_out.fn = "recover_state" /\ p_in.some) =>
        /\ ~p_out.panic
        /\ p_out.mode = "Partial" <=> p_in.val.version > CURRENT_VERSION
        /\ p_in.val.version <= CURRENT_VERSION =>
              /\ p_out.mode \in {"Clean", "Sanitized"}
              /\ validate(p_out.state) = [panic |-> FALSE, warnings |-> <<>>]

\* replace_state(state) leaves the manager as it is
LeavesManager(state) ==
    LET r == replace_state(state) IN
    /\ r.outcome = "Ok"
    /\ r.grid = grid /\ r.version = version
    /\ r.widgets = widgets

(***************************************************************************)
(* C36: reloading is the identity on the states the manager produced: in   *)
(* every reachable GridManager state, replace_state of state(), and of     *)
(* state() written to dashboard.json and read back, leaves grid, version   *)
(* and the widget list (members, order, every field) unchanged.            *)
(***************************************************************************)
C36_ReloadIsIdentity ==
    ~panicked =>
        /\ LeavesManager(manager_state)
        /\ LeavesManager(layout_from_str(layout_to_string_pretty(manager_state)))

\* slots that are out of bounds and share cells without any sum above 255
PrecedenceSlots ==
    [id : Ids \cup {NoId}, x : XInputs, y : {0, 3}, width : WidthInputs,
     height : {4, 10}, locked : {"none"}, settings : SlotSettingsInputs]

\* the first of the errors that applies to the candidate, "" if none does
FirstError(ws, candidate) ==
    IF candidate.widget_type \notin RegisteredTypes THEN "UnknownWidget"
    ELSE IF ~ValidSize(candidate) THEN "InvalidSize"
    ELSE IF ~InGrid(candidate) THEN "OutOfBounds"
    ELSE IF SharesCellWithOther(ws, candidate) THEN "Collision"
    ELSE ""

\* more than one of the errors applies to the candidate
SeveralApply(ws, candidate) ==
    Cardinality({e \in {"UnknownWidget", "InvalidSize", "OutOfBounds", "Collision"} :
        \/ e = "UnknownWidget" /\ candidate.widget_type \notin RegisteredTypes
        \/ e = "InvalidSize" /\ ~ValidSize(candidate)
        \/ e = "OutOfBounds" /\ ~InGrid(candidate)
        \/ e = "Collision" /\ SharesCellWithOther(ws, candidate)}) > 1

(***************************************************************************)
(* C37: when several validation errors apply, the one returned is fixed.   *)
(* AddWidget: UnknownWidget before InvalidSize before OutOfBounds before   *)
(* Collision.  MoveWidget / ResizeWidget: UnknownId before Locked before   *)
(* any error of size, bounds or collision.                                 *)
(***************************************************************************)
C37_ErrorPrecedence ==
    ~panicked =>
        /\ \A widget_type \in TypeInputs, layout \in SlotInputs \cup PrecedenceSlots :
              LET candidate == AddCandidate(widget_type, layout) IN
              (/\ layout.id # NoId \/ Ids \ IdsOf(widgets) # {}
               /\ SeveralApply(widgets, candidate))
              => AddWidgetResult(widget_type, layout).outcome = FirstError(widgets, candidate)
        /\ \A id \in Ids, width \in WidthInputs, height \in HeightInputs,
              x \in XInputs, y \in YInputs :
              LET expected == IF id \notin IdsOf(widgets) THEN "UnknownId"
                              ELSE IF widgets[find(widgets, id)].locked THEN "Locked"
                              ELSE ""
              IN  expected # "" =>
                    /\ MoveWidgetResult(id, x, y).outcome = expected
                    /\ ResizeWidgetResult(id, width, height, x, y).outcome = expected

\* overlaps answers for a and b what the cells of the two rectangles say
OverlapsIsExact(a, b) ==
    /\ overlaps(a, b) = IF CellsShare(a, b) THEN "T" ELSE "F"
    /\ overlaps(b, a) = overlaps(a, b)

(***************************************************************************)
(* C38: overlaps(a, b) is true exactly when the half-open rectangles       *)
(* [x, x + width) x [y, y + height) of a and b have a cell in common; it   *)
(* is symmetric, and rectangles that only touch at an edge or a corner do  *)
(* not overlap.  Checked for every widget of the manager against every     *)
(* rectangle a slot can describe.                                          *)
(***************************************************************************)
C38_OverlapsIsCellSharing ==
    \A i \in 1..Len(widgets), layout \in SlotInputs :
        OverlapsIsExact(widgets[i], layout)

\* after differs from before in nothing but the named fields of widget id
OnlyFieldsChanged(before, after, id, fields) ==
    /\ Len(after) = Len(before)
    /\ \A j \in 1..Len(before) :
          IF before[j].id = id
          THEN \A f \in DOMAIN before[j] \ fields : after[j][f] = before[j][f]
          ELSE after[j] = before[j]

(***************************************************************************)
(* C39: a MoveWidget that succeeds changes only the x and y of its target, *)
(* a ResizeWidget that succeeds only its width and height, and its x and y *)
(* when they are supplied; the target's id, type, locked flag and          *)
(* settings, every other widget, the order of the list, the grid and the   *)
(* version are unchanged.                                                  *)
(***************************************************************************)
C39_MoveAndResizeAreFieldUpdates ==
    ~panicked =>
        \A id \in IdsOf(widgets) :
            /\ \A x \in XInputs, y \in YInputs :
                  LET r == MoveWidgetResult(id, x, y) IN
                  r.outcome = "Ok" =>
                      /\ OnlyFieldsChanged(widgets, r.widgets, id, {"x", "y"})
                      /\ r.widgets[find(r.widgets, id)].x = x
                      /\ r.widgets[find(r.widgets, id)].y = y
                      /\ r.grid = grid /\ r.version = version
            /\ \A width \in WidthInputs, height \in HeightInputs,
                  x \in XInputs \cup {NoU8}, y \in YInputs \cup {NoU8} :
                  LET r == ResizeWidgetResult(id, width, height, x, y) IN
                  r.outcome = "Ok" =>
                      /\ OnlyFieldsChanged(widgets, r.widgets, id,
                                           {"width", "height"}
                                           \cup (IF x # NoU8 THEN {"x"} ELSE {})
                                           \cup (IF y # NoU8 THEN {"y"} ELSE {}))
                      /\ r.widgets[find(r.widgets, id)].width = width
                      /\ r.widgets[find(r.widgets, id)].height = height
                      /\ r.grid = grid /\ r.version = version

\* widget w reaches past the last column or the last row of grid g
OutsideGrid(w, g) ==
    ExtendsPast(w.x, w.width, g.columns) \/ ExtendsPast(w.y, w.height, g.rows)

(***************************************************************************)
(* C40: the bounds checks of a persisted state are exact for the whole u32 *)
(* range.  validate returns and warns about every widget whose true        *)
(* x + width exceeds the columns or whose true y + height exceeds the      *)
(* rows, once each and about no other widget; sanitize returns and keeps   *)
(* exactly the widgets that lie inside the grid it returns (of those it    *)
(* does not drop for a zero size or a repeated id); sums above 2^32 - 1    *)
(* included.                                                               *)
(***************************************************************************)
C40_PersistedBoundsAreExact ==
    /\ p_out.fn = "validate" =>
          /\ ~p_out.panic
          /\ LET outside == SelectSeq(p_in.val.layout.widgets,
                                       LAMBDA w : OutsideGrid(w, p_in.val.layout.grid))
                 warned == SelectSeq(p_out.report,
                                     LAMBDA r : r.kind = "outside grid bounds")
             IN  /\ Len(warned) = Len(outside)
                 /\ \A k \in 1..Len(outside) :
                       warned[k] = Warning("outside grid bounds", outside[k].id,
                                           outside[k].widget_type)
    /\ p_out.fn = "sanitize" =>
          /\ ~p_out.panic
          /\ \A i \in 1..Len(p_out.state.layout.widgets) :
                ~OutsideGrid(p_out.state.layout.widgets[i], p_out.state.layout.grid)
          /\ \A i \in 1..Len(p_in.val.layout.widgets) :
                LET w == p_in.val.layout.widgets[i] IN
                (/\ ~OutsideGrid(w, p_out.state.layout.grid)
                 /\ w.width # U32(0) /\ w.height # U32(0)
                 /\ \A j \in 1..Len(p_in.val.layout.widgets) :
                       j # i => p_in.val.layout.widgets[j].id # w.id)
                => \E k \in 1..Len(p_out.state.layout.widgets) :
                       p_out.state.layout.widgets[k] = w
====
